---------------------------- MODULE Spec2Model ----------------------------
(***************************************************************************)
(* A model of tools/stereo_camera_probe.py (VITURE stereo camera probe):   *)
(*   - the command encoders build_stereo_command and build_short_command,  *)
(*   - the transport wrappers send_command / read_response,                *)
(*   - the 0xE4 exchange with payload continuation (exact_disasm_sequence),*)
(*   - the decoding of control responses and the 0xEA exchange,            *)
(*   - capture_ep82_stream: initialisation, priming, capture loop, summary.*)
(* Bytes are naturals 0..255; byte strings are sequences of bytes          *)
(* (1-indexed here, 0-indexed in the source).  Time is counted in units of *)
(* 50 ms, the granularity of every timeout of the capture loop.            *)
(***************************************************************************)
EXTENDS Integers, Sequences, FiniteSets, TLC

VARIABLES
    \* ---- codec (build_stereo_command, build_short_command)
    codec_pc,          \* "idle" | "call" | "done" | "call_short" | "done_short"
    cmd_args,          \* the arguments of build_stereo_command
    short_args,        \* the five arguments of build_short_command
    cmd,               \* the frame the encoder returned
    \* ---- transport (send_command / read_response)
    read_log,          \* read_response calls so far: [outcome, data, ret, printed]
    write_log,         \* send_command calls so far: [outcome, ret, printed]
    \* ---- decoding of a control response (status and declared length)
    dec_pc,            \* "idle" | "call" | "done_scan" | "done_step7"
    response,          \* the bytes the read on EP 0x85 returned
    dec_status,        \* status, once assigned
    dec_data_len,      \* data_len, once assigned
    dec_assigned,      \* which of "status", "data_len" the decoding assigned
    \* ---- 0xEA exchange (steps 2 and 3 of exact_disasm_sequence)
    ea_pc,             \* "idle" | "write" | "read" | "done"
    ea_camera_id,      \* the loop variable of "for camera_id in [0, 1]"
    ea_cmd,            \* the frame written to EP 0x04
    ea_response,       \* the bytes the read on EP 0x85 returned
    ea_status,         \* status, -1 while unassigned
    ea_data_len,       \* data_len, -1 while unassigned
    ea_first_bytes,    \* the payload bytes shown by "Got data! First bytes"
    ea_reads,          \* reads of EP 0x85 issued by the exchange
    \* ---- 0xE4 exchange with extended read (exact_disasm_sequence)
    e4_pc,             \* "idle" | "write" | "first_read" | "loop" | "report" | "done"
    header,            \* the first read's bytes
    status,            \* header[3], -1 while unassigned
    data_len,          \* declared payload length, -1 while unassigned
    total_data_len,    \* len(total_data)
    bytes_remaining,
    e4_read_count,     \* read_count of the continuation loop
    e4_reads_issued,   \* continuation reads handed to the device so far
    e4_exit,           \* how the exchange left its read path
    e4_report,         \* the "Total payload received" line, once printed
    \* ---- initialisation and priming (capture_ep82_stream, before the loop)
    init_idx,          \* init_cmds entries done with
    alt_setting,       \* alternate settings tried
    priming_i,         \* priming reads done with
    primed,
    ctl_frame,         \* the latest frame a write to EP 0x04 got through, <<>> if none
    ep85_reads,        \* reads of EP 0x85 issued since the function was entered
    prime_outcomes,    \* kinds of outcome the ack read and the priming reads had
    \* ---- capture loop (capture_ep82_stream)
    pc,                \* "idle" | "init_write" | "init_read" | "alt" | "prime_write"
                       \* | "prime_ack" | "prime_read" | "start"
                       \* | "loop" | "ka_write" | "ka_ack" | "read" | "summary" | "closed"
    now,               \* time.time(), in units of 50 ms
    duration_seconds,  \* the configured duration, in the same units
    start_time,
    current_time,
    last_trigger_time,
    read_count,
    aa8f_packets,
    a2c4_packets,
    other_packets,
    timeout_count,
    frame_numbers,
    left_packets,
    right_packets,
    packet_type,       \* "unset" until the first packet is classified
    all_data,          \* the accumulated bytes
    packet_info,       \* per counted packet: offset, size and the first 8 bytes
    f,                 \* the bytes written to the output file
    report,            \* the capture summary, once printed
    \* ---- capture loop: the device and what the run showed (not program variables)
    packet_pool,       \* the packets the device may deliver on EP 0x82
    stream_reads,      \* reads of EP 0x82 that returned (empty packets included)
    last_data,         \* the bytes the latest such read returned
    last_counted,      \* the type counter that read incremented, "none" if none
    fatal_error,       \* a non-timeout USBError was raised in the loop
    io_after_fatal,    \* a device read or write was issued after that
    ka_timeouts,       \* a keep-alive write or ack read timed out
    trigger_attempted, \* the current iteration issued the trigger write
    trigger_base,      \* last_trigger_time as the current iteration found it
    prev_attempt_time, \* current_time of the previous trigger write, -1 if none
    trigger_gap,       \* current_time difference of the two latest trigger writes
    ka_frame,          \* the frame the latest keep-alive write handed to EP 0x04
    last_read_at,      \* the clock when the latest read of EP 0x82 was issued, -1 if none
    \* ---- main
    main_pc,           \* "idle" | "find" | "list" | "claim" | "dispatch" | "op" | "finally" | "done"
    args,              \* the parsed command line: [list_endpoints, flags, interface]
    device_found,      \* self.device is not None
    interface,         \* self.interface, -1 for None
    claimed,           \* the interface is claimed on the device
    run_queue,         \* the operations the dispatch selected, not yet started
    op_running,        \* the operation in progress, "none" if none
    ops_started,       \* operations started so far
    op_io,             \* device reads and writes the operations issued
    release_calls,     \* calls of probe.release()
    release_interface_calls, \* calls of usb.util.release_interface
    raised,            \* an exception is propagating out of main
    exit_code,         \* what main returned, -1 while it has not
    \* ---- initialization sequences of exact_disasm_sequence
    seq_pc,            \* "idle" | "write" | "read" | "check" | "e4_write" | "e4_read" | "done"
    cmd_sequence,      \* the sequence being tried
    seq_i,             \* position of cmd_type in cmd_sequence
    last_status,       \* NoStatus for None
    ea_answer,         \* what the 0xEA exchange of the sequence gave: "unsent" | "error" |
                       \* "empty" | "status"
    ea_answer_status,  \* the status of the 0xEA response, when ea_answer = "status"
    followup_attempted, \* the 0xE4 follow-up was written
    followup_reads,    \* reads of the 0xE4 follow-up
    \* ---- probe_stereo_cameras, probe_various_commands, try_start_commands
    probe_pc,          \* "idle" | "send" | "read" | "done"
    probe_fn,          \* the function running
    probe_idx,         \* position of the command in the function's list
    probe_result,      \* what send_command returned for the command
    probe_reads,       \* read_response calls issued for the command
    probe_written,     \* device.write went through for the command
    probe_got,         \* a read of the command returned a non-empty response
    probe_log,         \* per command handled so far: [written, result, reads, got]
    \* ---- hud_pygame.py
    lines,             \* the text, a list of lines, each a sequence of characters
    current_line,      \* index (from 0) of the line being edited
    running,           \* the main loop's flag
    \* ---- viture_buttons.py, viture_buttons2.py
    btn_script,        \* "none" | "viture_buttons" | "viture_buttons2"
    btn_pc,            \* "idle" | "read" | "stopped"
    btn_ep,            \* position in endpoints of the next read
    btn_count,         \* count: polling rounds completed (viture_buttons2)
    btn_round,         \* the reads of the current round: [ep, outcome]
    btn_exit           \* "" | "Stopped." | "Error"

codecVars     == <<codec_pc, cmd_args, short_args, cmd>>
transportVars == <<read_log, write_log>>
decodeVars    == <<dec_pc, response, dec_status, dec_data_len, dec_assigned>>
eaVars        == <<ea_pc, ea_camera_id, ea_cmd, ea_response, ea_status, ea_data_len,
                   ea_first_bytes, ea_reads>>
e4Vars        == <<e4_pc, header, status, data_len, total_data_len, bytes_remaining,
                   e4_read_count, e4_reads_issued, e4_exit, e4_report>>
primingVars   == <<init_idx, alt_setting, priming_i, primed, ctl_frame, ep85_reads,
                   prime_outcomes>>
captureVars   == <<primingVars, pc, now, duration_seconds, start_time, current_time, last_trigger_time,
                   read_count, aa8f_packets, a2c4_packets, other_packets, timeout_count,
                   frame_numbers, left_packets, right_packets, packet_type, all_data, f,
                   packet_info, report, packet_pool, stream_reads, last_data, last_counted, fatal_error,
                   io_after_fatal, ka_timeouts, trigger_attempted, trigger_base,
                   prev_attempt_time, trigger_gap, ka_frame, last_read_at>>
mainVars      == <<main_pc, args, device_found, interface, claimed, run_queue, op_running,
                   ops_started, op_io, release_calls, release_interface_calls, raised,
                   exit_code>>
seqVars       == <<seq_pc, cmd_sequence, seq_i, last_status, ea_answer, ea_answer_status,
                   followup_attempted, followup_reads>>
probeVars     == <<probe_pc, probe_fn, probe_idx, probe_result, probe_reads, probe_written,
                   probe_got, probe_log>>
hudVars       == <<lines, current_line, running>>
btnVars       == <<btn_script, btn_pc, btn_ep, btn_count, btn_round, btn_exit>>
appVars       == <<hudVars, btnVars>>
toolVars      == <<mainVars, seqVars, probeVars, appVars>>
modelVars     == <<codecVars, transportVars, decodeVars, eaVars, e4Vars, captureVars>>
vars          == <<modelVars, toolVars>>

-----------------------------------------------------------------------------
(* Byte helpers *)

\* x & 0xFF
LowByte(x) == x % 256

\* (x >> 8) & 0xFF
HighByte(x) == (x \div 256) % 256

\* (hi << 8) | lo, for bytes lo and hi
LE16(lo, hi) == hi * 256 + lo

\* bytearray(n): n zero bytes
Zeros(n) == [i \in 1..n |-> 0]

-----------------------------------------------------------------------------
(* Frame codec *)

\* The encoder with the size parameter stored big-endian (bytes 3 and 4 swapped).
build_stereo_command_big_endian(cmd_type, size_param, flag, camera_id) ==
    <<250, 85, cmd_type, HighByte(size_param), LowByte(size_param), flag, camera_id>>
        \o Zeros(6)

\* build_stereo_command: FA 55 cmd size_lo size_hi flag camera 00*6
build_stereo_command(cmd_type, size_param, flag, camera_id) ==
    [Zeros(13) EXCEPT ![1] = 250,
                      ![2] = 85,
                      ![3] = cmd_type,
                      ![4] = LowByte(size_param),
                      ![5] = HighByte(size_param),
                      ![6] = flag,
                      ![7] = camera_id]

\* Inputs of the encoder: a sample of every byte range and of the 16-bit range.
ByteSamples == {0, 1, 149, 234, 255}
SizeSamples == {0, 1, 255, 256, 2048, 4660, 65535}

NoArgs == [cmd_type |-> 0, size_param |-> 0, flag |-> 0, camera_id |-> 0]

\* build_short_command: the five bytes it is given, in order
build_short_command(byte0, byte1, byte2, byte3, byte4) ==
    <<byte0, byte1, byte2, byte3, byte4>>

\* Inputs of the short encoder: each of its five arguments is any byte.
ShortByteSamples == {0, 85, 250}

\* A call of one of the two encoders with arguments from the samples.
CodecInit ==
    /\ cmd = <<>>
    /\ \/ /\ codec_pc = "call"
          /\ cmd_args \in [cmd_type : ByteSamples, size_param : SizeSamples,
                           flag : ByteSamples, camera_id : ByteSamples]
          /\ short_args = <<>>
       \/ /\ codec_pc = "call_short"
          /\ cmd_args = NoArgs
          /\ short_args \in [1..5 -> ShortByteSamples]

CodecIdle ==
    /\ codec_pc = "idle"
    /\ cmd_args = NoArgs
    /\ short_args = <<>>
    /\ cmd = <<>>

BuildStereoCommand ==
    /\ codec_pc = "call"
    /\ cmd' = build_stereo_command(cmd_args.cmd_type, cmd_args.size_param,
                                   cmd_args.flag, cmd_args.camera_id)
    /\ codec_pc' = "done"
    /\ UNCHANGED <<cmd_args, short_args, transportVars, decodeVars, eaVars, e4Vars, captureVars, toolVars>>

BuildShortCommand ==
    /\ codec_pc = "call_short"
    /\ cmd' = build_short_command(short_args[1], short_args[2], short_args[3],
                                  short_args[4], short_args[5])
    /\ codec_pc' = "done_short"
    /\ UNCHANGED <<cmd_args, short_args, transportVars, decodeVars, eaVars, e4Vars, captureVars, toolVars>>

-----------------------------------------------------------------------------
(* Transport *)

\* usb.core.USBError instances the device layer raises: message and errno.
USBErrors ==
    { [msg |-> "Operation timed out", errno |-> 110],
      [msg |-> "Operation timed out", errno |-> 0],
      [msg |-> "Timeout",             errno |-> 110],
      [msg |-> "No such device",      errno |-> 19],
      [msg |-> "Access denied",       errno |-> 13],
      [msg |-> "Input/Output Error",  errno |-> 5] }

\* "timed out" in str(e).lower()
MsgHasTimedOut(e) == e.msg \in {"Operation timed out"}

\* The timeout test used by the readers: message or errno 110 (ETIMEDOUT).
IsTimeout(e) == MsgHasTimedOut(e) \/ e.errno = 110

TimeoutErrors == {e \in USBErrors : IsTimeout(e)}
FatalErrors   == USBErrors \ TimeoutErrors

\* Return values of read_response: bytes(data), or None.
None       == [tag |-> "None", val |-> <<>>]
Bytes(b)   == [tag |-> "bytes", val |-> b]

\* What device.read does: returns the bytes read, or raises a USBError.
Returned(v) == [kind |-> "ok", val |-> v, err |-> [msg |-> "", errno |-> 0]]
Raised(e)   == [kind |-> "raise", val |-> <<>>, err |-> e]

\* What device.write does: returns the count written, or raises a USBError.
Written(n)     == [kind |-> "ok", val |-> n, err |-> [msg |-> "", errno |-> 0]]
WriteRaised(e) == [kind |-> "raise", val |-> 0, err |-> e]

\* read_response treating a response with a non-zero status byte as a failure.
read_response_status_checked(dev) ==
    IF dev.kind = "ok" /\ ~(Len(dev.val) >= 4 /\ dev.val[4] # 0)
    THEN Bytes(dev.val) ELSE None

\* read_response: the bytes read, None on any USBError.
read_response(dev) ==
    IF dev.kind = "ok" THEN Bytes(dev.val) ELSE None

\* What read_response prints on its way out.
read_response_printed(dev) ==
    IF dev.kind = "ok" THEN "Received"
    ELSE IF IsTimeout(dev.err) THEN "Read timeout" ELSE "Error reading response"

\* send_command: the byte count written, -1 on any USBError.
send_command(cmd_data, dev) ==
    IF dev.kind = "ok" THEN dev.val ELSE -1

\* Responses a control read may deliver.
ControlResponses ==
    { <<>>, <<250, 85, 234>>, <<250, 85, 234, 0, 5, 0>>, <<250, 85, 234, 1, 0, 0>> }

\* Frames handed to send_command.
ControlCommands ==
    { build_stereo_command(234, 2048, 1, 0), <<250, 85, 237, 0, 0>> }

\* The transport's three outcomes: data/ack, timeout, any other failure.
OutcomeOf(dev) ==
    IF dev.kind = "ok" THEN "ok"
    ELSE IF IsTimeout(dev.err) THEN "timeout" ELSE "error"

TransportInit ==
    /\ read_log = {}
    /\ write_log = {}

ReadResponse ==
    /\ \E dev \in {Returned(r) : r \in ControlResponses} \cup {Raised(e) : e \in USBErrors} :
          read_log' = read_log \cup
              { [outcome |-> OutcomeOf(dev), data |-> dev.val, ret |-> read_response(dev),
                 printed |-> read_response_printed(dev)] }
    /\ UNCHANGED <<write_log, codecVars, decodeVars, eaVars, e4Vars, captureVars, toolVars>>

SendCommand ==
    /\ \E c \in ControlCommands :
       \E dev \in {Written(Len(c))} \cup {WriteRaised(e) : e \in USBErrors} :
          write_log' = write_log \cup
              { [outcome |-> OutcomeOf(dev), ret |-> send_command(c, dev),
                 printed |-> IF dev.kind = "ok" THEN "Sent" ELSE "Error sending command"] }
    /\ UNCHANGED <<read_log, codecVars, decodeVars, eaVars, e4Vars, captureVars, toolVars>>

-----------------------------------------------------------------------------
(* Decoding of a control response *)

\* A response: FA 55 echo status len_lo len_hi, then `present` payload bytes.
Response(echo, st, len, present) ==
    <<250, 85, echo, st, LowByte(len), HighByte(len)>> \o [i \in 1..present |-> 171]

\* Every prefix of a byte string, the empty one and the whole included.
Prefixes(b) == {SubSeq(b, 1, n) : n \in 0..Len(b)}

\* What a read of EP 0x85 may hand to the decoding: whole responses and
\* responses cut short at every length.
DecodeInputs ==
    UNION { Prefixes(Response(echo, st, len, present)) :
              echo \in {149, 228, 234}, st \in {0, 1, 8},
              len \in {0, 5, 2048}, present \in {0, 2} }

\* status = response[3] if len(response) >= 4 else -1
StatusOrMinusOne(resp) == IF Len(resp) >= 4 THEN resp[4] ELSE -1

\* data_len = (response[5] << 8) | response[4] if len(response) >= 6 else 0
DataLenOrZero(resp) == IF Len(resp) >= 6 THEN LE16(resp[5], resp[6]) ELSE 0

DecodeIdle ==
    /\ dec_pc = "idle"
    /\ response = <<>>
    /\ dec_status = 0
    /\ dec_data_len = 0
    /\ dec_assigned = {}

\* A response has been read and is about to be decoded.
DecodeInit ==
    /\ dec_pc = "call"
    /\ response \in DecodeInputs
    /\ dec_status = 0
    /\ dec_data_len = 0
    /\ dec_assigned = {}

\* The 0xE0-0xEF scan of exact_disasm_sequence:
\*   if response and len(response) >= 4:
\*       status = response[3]
\*       data_len = (response[5] << 8) | response[4] if len(response) >= 6 else 0
DecodeScan ==
    /\ dec_pc = "call"
    /\ IF response # <<>> /\ Len(response) >= 4
       THEN /\ dec_status' = response[4]
            /\ dec_data_len' = DataLenOrZero(response)
            /\ dec_assigned' = {"status", "data_len"}
       ELSE UNCHANGED <<dec_status, dec_data_len, dec_assigned>>
    /\ dec_pc' = "done_scan"
    /\ UNCHANGED <<response, codecVars, transportVars, eaVars, e4Vars, captureVars, toolVars>>

\* Step 7 of try_discovered_init:
\*   if response:
\*       status = response[3] if len(response) >= 4 else -1
\*       data_len = (response[5] << 8) | response[4] if len(response) >= 6 else 0
DecodeStep7 ==
    /\ dec_pc = "call"
    /\ IF response # <<>>
       THEN /\ dec_status' = StatusOrMinusOne(response)
            /\ dec_data_len' = DataLenOrZero(response)
            /\ dec_assigned' = {"status", "data_len"}
       ELSE UNCHANGED <<dec_status, dec_data_len, dec_assigned>>
    /\ dec_pc' = "done_step7"
    /\ UNCHANGED <<response, codecVars, transportVars, eaVars, e4Vars, captureVars, toolVars>>

-----------------------------------------------------------------------------
(* Command/response exchange: 0xEA, steps 2 and 3 of exact_disasm_sequence *)

\* Bytes already delivered behind the header by the first read.
MaxPresent == 2

Min(a, b) == IF a < b THEN a ELSE b

\* cmd = bytearray(13) filled in by hand: FA 55 EA 00 08 01 camera_id 00*6
disasm_command(cam) ==
    [Zeros(13) EXCEPT ![1] = 250, ![2] = 85, ![3] = 234, ![4] = 0, ![5] = 8,
                      ![6] = 1, ![7] = cam]

\* What the read on EP 0x85 may deliver in answer to 0xEA.
EaResponses ==
    { <<>>, <<250, 85, 234>>, <<250, 85, 234, 0, 5>>,
      Response(234, 0, 0, 0), Response(234, 113, 0, 0), Response(234, 1, 5, 0),
      Response(234, 0, 5, 0), Response(234, 0, 5, MaxPresent),
      Response(234, 0, 1, MaxPresent), Response(234, 0, 2048, MaxPresent) }

\* response[6:min(6 + data_len, len(response))]
FirstBytes(resp, len) ==
    IF Min(6 + len, Len(resp)) > 6 THEN SubSeq(resp, 7, Min(6 + len, Len(resp))) ELSE <<>>

EaIdle ==
    /\ ea_pc = "idle"
    /\ ea_camera_id = 0
    /\ ea_cmd = <<>>
    /\ ea_response = <<>>
    /\ ea_status = -1
    /\ ea_data_len = -1
    /\ ea_first_bytes = <<>>
    /\ ea_reads = 0

\* One pass of "for camera_id in [0, 1]", about to build and write the command.
EaInit ==
    /\ ea_pc = "write"
    /\ ea_camera_id \in {0, 1}
    /\ ea_cmd = <<>>
    /\ ea_response = <<>>
    /\ ea_status = -1
    /\ ea_data_len = -1
    /\ ea_first_bytes = <<>>
    /\ ea_reads = 0

\* written = self.device.write(0x04, cmd, timeout=1500); a USBError ends the pass.
EaWrite ==
    /\ ea_pc = "write"
    /\ ea_cmd' = disasm_command(ea_camera_id)
    /\ \/ ea_pc' = "read"
       \/ /\ \E e \in USBErrors : TRUE
          /\ ea_pc' = "done"
    /\ UNCHANGED <<ea_camera_id, ea_response, ea_status, ea_data_len, ea_first_bytes,
                   ea_reads>>
    /\ UNCHANGED <<codecVars, transportVars, decodeVars, e4Vars, captureVars, toolVars>>

\* response = self.device.read(0x85, 512, timeout=1500) and the parsing of it;
\* the pass ends here whatever the header declares.
EaRead ==
    /\ ea_pc = "read"
    /\ ea_reads' = ea_reads + 1
    /\ \/ \E r \in EaResponses :
            /\ ea_response' = r
            /\ IF r # <<>> /\ Len(r) >= 6
               THEN /\ ea_status' = r[4]
                    /\ ea_data_len' = LE16(r[5], r[6])
                    /\ ea_first_bytes' =
                          IF r[4] = 0 /\ LE16(r[5], r[6]) > 0
                          THEN FirstBytes(r, LE16(r[5], r[6])) ELSE <<>>
               ELSE UNCHANGED <<ea_status, ea_data_len, ea_first_bytes>>
       \/ /\ \E e \in USBErrors : TRUE
          /\ UNCHANGED <<ea_response, ea_status, ea_data_len, ea_first_bytes>>
    /\ ea_pc' = "done"
    /\ UNCHANGED <<ea_camera_id, ea_cmd>>
    /\ UNCHANGED <<codecVars, transportVars, decodeVars, e4Vars, captureVars, toolVars>>

-----------------------------------------------------------------------------
(* Command/response exchange: 0xE4 with extended read *)

\* The continuation loop gives up after this many chunks.
E4MaxReads == 500

\* The largest payload length a modelled response declares.
MaxDeclared == 503

DeclaredLens == {1, 5, MaxDeclared}

\* What the first read on EP 0x85 may deliver.
E4Headers ==
    { <<>>, <<250, 85, 228>>, <<250, 85, 228, 0>>,
      Response(228, 0, 0, 0), Response(228, 1, 5, 0), Response(228, 113, 0, 0) }
    \cup { Response(228, 0, l, p) : l \in DeclaredLens, p \in {0, MaxPresent} }

\* while bytes_remaining > 0: the loop test without the attempt cap.
E4LoopCondition_uncapped(remaining, count) == remaining > 0

\* while bytes_remaining > 0 and read_count < 500
E4LoopCondition(remaining, count) == remaining > 0 /\ count < E4MaxReads

\* chunk_size = min(16384, bytes_remaining + 1000)
E4ChunkSize(remaining) == Min(16384, remaining + 1000)

\* Lengths of a non-empty chunk the device may deliver to a read of chunk_size.
E4ChunkLens(remaining) ==
    {n \in {1, 3, remaining, remaining + 1, E4ChunkSize(remaining)} :
        n >= 1 /\ n <= E4ChunkSize(remaining)}

NoReport == [printed |-> FALSE, received |-> 0, expected |-> 0]

E4Idle ==
    /\ e4_pc = "idle"
    /\ header = <<>>
    /\ status = -1
    /\ data_len = -1
    /\ total_data_len = 0
    /\ bytes_remaining = 0
    /\ e4_read_count = 0
    /\ e4_reads_issued = 0
    /\ e4_exit = ""
    /\ e4_report = NoReport

E4Init ==
    /\ e4_pc = "write"
    /\ header = <<>>
    /\ status = -1
    /\ data_len = -1
    /\ total_data_len = 0
    /\ bytes_remaining = 0
    /\ e4_read_count = 0
    /\ e4_reads_issued = 0
    /\ e4_exit = ""
    /\ e4_report = NoReport

\* self.device.write(0x04, cmd, timeout=1500); a USBError goes to the outer handler.
E4Write ==
    /\ e4_pc = "write"
    /\ \/ /\ e4_pc' = "first_read"
          /\ UNCHANGED e4_exit
       \/ /\ \E e \in USBErrors : TRUE
          /\ e4_pc' = "done"
          /\ e4_exit' = "write_error"
    /\ UNCHANGED <<header, status, data_len, total_data_len, bytes_remaining,
                   e4_read_count, e4_reads_issued, e4_report>>
    /\ UNCHANGED <<codecVars, transportVars, decodeVars, eaVars, captureVars, toolVars>>

\* header = self.device.read(0x85, 512, timeout=1500) and the decoding of it.
E4FirstRead ==
    /\ e4_pc = "first_read"
    /\ \/ \E h \in E4Headers :
            /\ header' = h
            /\ IF Len(h) >= 6
               THEN /\ status' = h[4]
                    /\ data_len' = LE16(h[5], h[6])
                    /\ IF h[4] = 0 /\ LE16(h[5], h[6]) > 0
                       THEN /\ e4_pc' = "loop"
                            /\ bytes_remaining' = LE16(h[5], h[6])
                            /\ UNCHANGED e4_exit
                       ELSE /\ e4_pc' = "done"
                            /\ e4_exit' = "no_data"
                            /\ UNCHANGED bytes_remaining
               ELSE /\ e4_pc' = "done"
                    /\ e4_exit' = "short_header"
                    /\ UNCHANGED <<status, data_len, bytes_remaining>>
       \/ /\ \E e \in USBErrors : TRUE
          /\ e4_pc' = "done"
          /\ e4_exit' = "error"
          /\ UNCHANGED <<header, status, data_len, bytes_remaining>>
    /\ total_data_len' = 0
    /\ e4_read_count' = 0
    /\ UNCHANGED <<e4_reads_issued, e4_report>>
    /\ UNCHANGED <<codecVars, transportVars, decodeVars, eaVars, captureVars, toolVars>>

\* One pass of the while loop: a chunk read and what follows it.
E4ChunkRead ==
    /\ e4_pc = "loop"
    /\ E4LoopCondition(bytes_remaining, e4_read_count)
    /\ e4_reads_issued' = e4_reads_issued + 1
    /\ \/ \E n \in E4ChunkLens(bytes_remaining) :
            /\ total_data_len' = total_data_len + n
            /\ bytes_remaining' = bytes_remaining - n
            /\ e4_read_count' = e4_read_count + 1
            /\ UNCHANGED <<e4_pc, e4_exit>>
       \/ \* an empty chunk: break
          /\ e4_pc' = "report"
          /\ e4_exit' = "empty"
          /\ UNCHANGED <<total_data_len, bytes_remaining, e4_read_count>>
       \/ \E e \in USBErrors :
            /\ IF IsTimeout(e)
               THEN e4_pc' = "report" /\ e4_exit' = "timeout"
               ELSE e4_pc' = "done" /\ e4_exit' = "error"
            /\ UNCHANGED <<total_data_len, bytes_remaining, e4_read_count>>
    /\ UNCHANGED <<header, status, data_len, e4_report>>
    /\ UNCHANGED <<codecVars, transportVars, decodeVars, eaVars, captureVars, toolVars>>

\* The loop test fails: fall through to the report.
E4LoopExit ==
    /\ e4_pc = "loop"
    /\ ~E4LoopCondition(bytes_remaining, e4_read_count)
    /\ e4_pc' = "report"
    /\ e4_exit' = IF bytes_remaining > 0 THEN "cap" ELSE "satisfied"
    /\ UNCHANGED <<header, status, data_len, total_data_len, bytes_remaining,
                   e4_read_count, e4_reads_issued, e4_report>>
    /\ UNCHANGED <<codecVars, transportVars, decodeVars, eaVars, captureVars, toolVars>>

\* print(f"Total payload received: {len(total_data)} bytes (expected {data_len})")
E4Report ==
    /\ e4_pc = "report"
    /\ e4_report' = [printed |-> TRUE, received |-> total_data_len, expected |-> data_len]
    /\ e4_pc' = "done"
    /\ UNCHANGED <<header, status, data_len, total_data_len, bytes_remaining,
                   e4_read_count, e4_reads_issued, e4_exit>>
    /\ UNCHANGED <<codecVars, transportVars, decodeVars, eaVars, captureVars, toolVars>>

-----------------------------------------------------------------------------
(* Capture loop of capture_ep82_stream *)

\* The trigger write with the control timeout of the priming write (1500 ms).
KaWriteTimeout_priming == 1500 \div 50

\* Timeouts and the keep-alive interval, in units of 50 ms.
KeepAliveInterval == 6      \* 0.3 s
KaWriteTimeout    == 2      \* timeout=100 of the trigger write
KaAckTimeout      == 1      \* timeout=50 of the ack read on EP 0x85
StreamReadTimeout == 1      \* timeout=50 of the read on EP 0x82

\* The longest configured duration, the clock when the capture starts, and the
\* number of reads of EP 0x82 that return a packet.
MaxDuration == 8
Epoch       == 10
MaxPackets  == 2

Durations == {MaxDuration - 1, MaxDuration}

\* The duration of the runs that exercise every packet shape.
ShortDuration == 2

\* The trigger: FA 55 95 00 08 01 00 00 00 00 00 00 00
cmd_95 == <<250, 85, 149, 0, 8, 1, 0, 0, 0, 0, 0, 0, 0>>

\* for i in range(10), with one more priming read.
PrimingReads_eleven == 10 + 1

\* init_cmds, range(4) and range(10) of the initialisation and priming.
init_cmds    == <<145, 146, 147, 148, 149, 150, 151, 152>>
AltSettings  == 4
PrimingReads == 10

\* bytes([0xFA, 0x55, cmd_type, 0x00, 0x08, 0x01, 0x00, ...]) of the init loop
init_command(cmd_type) == <<250, 85, cmd_type, 0, 8, 1, 0, 0, 0, 0, 0, 0, 0>>

\* Packets the streaming endpoint may deliver.
FramePacket(packet_id, frame_lo, frame_hi, camera_flag) ==
    <<170, 143, packet_id, 0, frame_lo, frame_hi, 0, 0, camera_flag, 156, 153, 0>>

StreamPackets ==
    { <<>>,                              \* zero-length packet
      <<170>>,                           \* one byte
      <<0, 0, 1>>,                       \* unknown header
      <<162, 196, 0, 0>>,                \* a2c4
      <<162, 196, 0, 0, 1, 0, 0, 0, 252, 0, 0, 0>>,  \* a2c4 as long as a frame header
      <<170, 143, 17, 0, 1, 0>>,         \* aa8f, shorter than the frame header
      FramePacket(17, 1, 0, 252),        \* left camera, frame 1
      FramePacket(33, 1, 0, 253),        \* right camera, frame 1
      FramePacket(18, 2, 1, 252),        \* left camera, frame 258
      FramePacket(17, 1, 0, 0) }         \* aa8f, neither camera flag

\* while time.time() - start_time < duration_seconds, also giving up after
\* two consecutive read timeouts.
LoopCondition_gives_up(t, start, duration, timeouts) ==
    t - start < duration /\ timeouts < 2

\* The while test with <= in place of <.
LoopCondition_inclusive(t, start, duration, timeouts) == t - start <= duration

\* while time.time() - start_time < duration_seconds (timeout_count, passed
\* as timeouts, plays no part in it)
LoopCondition(t, start, duration, timeouts) == t - start < duration

\* The trigger test with >= in place of >.
TriggerDue_inclusive(cur, last) == cur - last >= KeepAliveInterval

\* if current_time - last_trigger_time > 0.3
TriggerDue(cur, last) == cur - last > KeepAliveInterval

\* What the acknowledgement read on EP 0x85 may deliver: nothing, a status
\* response, or bytes that look like a frame packet.
AckResponses == { <<>>, <<250, 85, 149, 0, 0, 0>>, FramePacket(17, 1, 0, 252) }

\* The acknowledgement bytes appended to the capture buffer.
AfterAck_accumulated(all, ack) == all \o ack

\* self.device.read(0x85, 64, timeout=50): the value read is not assigned,
\* the capture buffer is what it was.
AfterAck(all, ack) == all

\* (len(all_data), len(data_bytes), data_bytes[:8].hex())
PacketInfo(all, data_bytes) ==
    [offset |-> Len(all), size |-> Len(data_bytes),
     head |-> SubSeq(data_bytes, 1, Min(8, Len(data_bytes)))]

\* The packet put in front of what was accumulated so far.
Extend_in_front(all, data_bytes) == data_bytes \o all

\* f.write(data_bytes) and all_data.extend(data_bytes): the packet goes to
\* the end.
Extend(all, data_bytes) == all \o data_bytes

\* The packet_type the classification block assigns to a non-empty packet.
classify(data_bytes) ==
    IF Len(data_bytes) >= 2
    THEN IF SubSeq(data_bytes, 1, 2) = <<170, 143>> THEN "FRAME"
         ELSE IF SubSeq(data_bytes, 1, 2) = <<162, 196>> THEN "IMU"
         ELSE "OTHER"
    ELSE "SHORT"

\* The classification block without the else branch of the length test: a
\* packet of one byte increments nothing.
CounterOf_short_uncounted(ptype) ==
    IF ptype = "FRAME" THEN "aa8f"
    ELSE IF ptype = "IMU" THEN "a2c4"
    ELSE IF ptype = "SHORT" THEN "none"
    ELSE "other"

\* The counter the classification block increments for a packet_type.
CounterOf(ptype) ==
    IF ptype = "FRAME" THEN "aa8f"
    ELSE IF ptype = "IMU" THEN "a2c4"
    ELSE "other"

\* The frame number read big-endian: int.from_bytes(data_bytes[4:6], 'big')
FrameNum_big_endian(data_bytes) == LE16(data_bytes[6], data_bytes[5])

\* int.from_bytes(data_bytes[4:6], 'little')
FrameNum(data_bytes) == LE16(data_bytes[5], data_bytes[6])

\* data_bytes[8]
CameraFlag(data_bytes) == data_bytes[9]

\* The frame fields decoded from every packet of 12 bytes or more, whatever
\* its header.
Decodes_any_header(data_bytes) == Len(data_bytes) >= 12

\* FRAME packets long enough for the frame fields to be decoded.
Decodes(data_bytes) == classify(data_bytes) = "FRAME" /\ Len(data_bytes) >= 12

NoSummary ==
    [printed |-> FALSE, lines |-> {}, elapsed |-> 0, total_reads |-> 0, total_bytes |-> 0,
     aa8f |-> 0, a2c4 |-> 0, other |-> 0, left |-> 0, right |-> 0, unique_frames |-> 0]

\* The labels of the lines the capture summary prints.
SummaryLines ==
    { "Duration", "Total reads", "Total bytes", "Data rate",
      "aa8f (FRAME)", "a2c4 (IMU)", "Other",
      "Left camera (0xfc)", "Right camera (0xfd)", "Unique frame numbers" }

\* The summary with the read timeouts counted among the reads.
SummaryOf_with_timeouts(elapsed, reads, timeouts, bytes, aa8f, a2c4, other, left, right, frames) ==
    [printed |-> TRUE, lines |-> SummaryLines, elapsed |-> elapsed,
     total_reads |-> reads + timeouts, total_bytes |-> Len(bytes),
     aa8f |-> aa8f, a2c4 |-> a2c4, other |-> other, left |-> left, right |-> right,
     unique_frames |-> Cardinality(frames)]

\* The values the capture summary prints (timeout_count, passed as timeouts,
\* is not among them).
SummaryOf(elapsed, reads, timeouts, bytes, aa8f, a2c4, other, left, right, frames) ==
    [printed |-> TRUE, lines |-> SummaryLines, elapsed |-> elapsed,
     total_reads |-> reads, total_bytes |-> Len(bytes),
     aa8f |-> aa8f, a2c4 |-> a2c4, other |-> other, left |-> left, right |-> right,
     unique_frames |-> Cardinality(frames)]

\* The packets of the runs that exercise the loop's timing.
TimingPackets == { <<>>, FramePacket(17, 1, 0, 252) }

CaptureCommon ==
    /\ current_time = 0
    /\ last_trigger_time = 0
    /\ read_count = 0
    /\ aa8f_packets = 0
    /\ a2c4_packets = 0
    /\ other_packets = 0
    /\ timeout_count = 0
    /\ frame_numbers = {}
    /\ left_packets = 0
    /\ right_packets = 0
    /\ packet_type = "unset"
    /\ all_data = <<>>
    /\ packet_info = <<>>
    /\ f = <<>>
    /\ report = NoSummary
    /\ stream_reads = 0
    /\ last_data = <<>>
    /\ last_counted = "none"
    /\ fatal_error = FALSE
    /\ io_after_fatal = FALSE
    /\ ka_timeouts = FALSE
    /\ trigger_attempted = FALSE
    /\ trigger_base = 0
    /\ prev_attempt_time = -1
    /\ trigger_gap = 0
    /\ ka_frame = <<>>
    /\ last_read_at = -1

\* The function has not been entered.
PrimingStart ==
    /\ init_idx = 0
    /\ alt_setting = 0
    /\ priming_i = 0
    /\ primed = FALSE
    /\ ctl_frame = <<>>
    /\ ep85_reads = 0
    /\ prime_outcomes = {}

\* Initialisation and priming are over: every init command was written and
\* answered, the trigger was written, and the ack read and the priming reads
\* all timed out.
PrimingDone ==
    /\ init_idx = Len(init_cmds)
    /\ alt_setting = AltSettings
    /\ priming_i = PrimingReads
    /\ primed = FALSE
    /\ ctl_frame = cmd_95
    /\ ep85_reads = Len(init_cmds) + 1
    /\ prime_outcomes = {"timeout"}

CaptureIdle ==
    /\ PrimingStart
    /\ pc = "idle"
    /\ packet_pool = {}
    /\ now = 0
    /\ start_time = 0
    /\ duration_seconds = 0
    /\ CaptureCommon

\* The state on entering the while loop: counters zeroed, start_time taken.
CaptureInit ==
    /\ PrimingDone
    /\ pc = "loop"
    /\ now = Epoch
    /\ start_time = Epoch
    /\ duration_seconds \in Durations
    /\ packet_pool = TimingPackets
    /\ CaptureCommon

\* The same entry state, for a short capture from a device that delivers
\* every packet shape.
IngestInit ==
    /\ PrimingDone
    /\ pc = "loop"
    /\ now = Epoch
    /\ start_time = Epoch
    /\ duration_seconds = ShortDuration
    /\ packet_pool = StreamPackets
    /\ CaptureCommon

\* capture_ep82_stream is entered: nothing has been written or read yet.
PrimingInit ==
    /\ PrimingStart
    /\ pc = "init_write"
    /\ now = Epoch
    /\ start_time = 0
    /\ duration_seconds \in Durations
    /\ packet_pool = TimingPackets
    /\ CaptureCommon

countersVars == <<read_count, aa8f_packets, a2c4_packets, other_packets,
                  frame_numbers, left_packets, right_packets, packet_type, all_data, f,
                  packet_info>>
observedReadVars == <<packet_pool, stream_reads, last_data, last_counted>>
triggerObsVars == <<trigger_attempted, trigger_base, prev_attempt_time, trigger_gap>>

loopVars == <<now, duration_seconds, start_time, current_time, last_trigger_time,
              timeout_count, report, fatal_error, io_after_fatal, ka_timeouts, ka_frame,
              last_read_at>>

\* The function reads the clock for the first time at start_time = time.time():
\* the steps before it leave `now`, the value of that first reading, alone.

\* The next step of the init loop once entry init_idx is done with.
AfterInitCmd(idx) == IF idx + 1 < Len(init_cmds) THEN "init_write" ELSE "alt"

\* self.device.write(0x04, cmd, timeout=500) of the init loop; a USBError
\* skips the read and goes to the next command.
InitWrite ==
    /\ pc = "init_write"
    /\ \/ /\ ctl_frame' = init_command(init_cmds[init_idx + 1])
          /\ pc' = "init_read"
          /\ UNCHANGED init_idx
       \/ \E e \in USBErrors :
            /\ init_idx' = init_idx + 1
            /\ pc' = AfterInitCmd(init_idx)
            /\ UNCHANGED ctl_frame
    /\ UNCHANGED <<alt_setting, priming_i, primed, ep85_reads, prime_outcomes>>
    /\ UNCHANGED <<loopVars, countersVars, observedReadVars, triggerObsVars>>
    /\ UNCHANGED <<codecVars, transportVars, decodeVars, eaVars, e4Vars, toolVars>>

\* response = self.device.read(0x85, 512, timeout=500) of the init loop: the
\* status is printed, a USBError is reported, and the loop goes on.
InitRead ==
    /\ pc = "init_read"
    /\ ep85_reads' = ep85_reads + 1
    /\ \/ \E r \in ControlResponses : TRUE
       \/ \E e \in USBErrors : TRUE
    /\ init_idx' = init_idx + 1
    /\ pc' = AfterInitCmd(init_idx)
    /\ UNCHANGED <<alt_setting, priming_i, primed, ctl_frame, prime_outcomes>>
    /\ UNCHANGED <<loopVars, countersVars, observedReadVars, triggerObsVars>>
    /\ UNCHANGED <<codecVars, transportVars, decodeVars, eaVars, e4Vars, toolVars>>

\* self.device.set_interface_altsetting(interface=0, alternate_setting=alt_setting),
\* a USBError being reported and passed over.
AltSetting ==
    /\ pc = "alt"
    /\ \/ TRUE
       \/ \E e \in USBErrors : TRUE
    /\ alt_setting' = alt_setting + 1
    /\ pc' = IF alt_setting + 1 < AltSettings THEN "alt" ELSE "prime_write"
    /\ UNCHANGED <<init_idx, priming_i, primed, ctl_frame, ep85_reads, prime_outcomes>>
    /\ UNCHANGED <<loopVars, countersVars, observedReadVars, triggerObsVars>>
    /\ UNCHANGED <<codecVars, transportVars, decodeVars, eaVars, e4Vars, toolVars>>

\* self.device.write(0x04, cmd_95, timeout=1500): the first trigger of the
\* priming block; a USBError skips the ack read and the priming reads.
PrimeWrite ==
    /\ pc = "prime_write"
    /\ \/ /\ ctl_frame' = cmd_95
          /\ pc' = "prime_ack"
       \/ \E e \in USBErrors :
            /\ pc' = "start"
            /\ UNCHANGED ctl_frame
    /\ UNCHANGED <<init_idx, alt_setting, priming_i, primed, ep85_reads, prime_outcomes>>
    /\ UNCHANGED <<loopVars, countersVars, observedReadVars, triggerObsVars>>
    /\ UNCHANGED <<codecVars, transportVars, decodeVars, eaVars, e4Vars, toolVars>>

\* The kind of outcome of a read, for prime_outcomes.
ReadKind(dev) ==
    IF dev.kind = "ok" THEN (IF dev.val = <<>> THEN "empty" ELSE "data")
    ELSE IF IsTimeout(dev.err) THEN "timeout" ELSE "error"

\* ack = self.device.read(0x85, 512, timeout=500) with every exception
\* swallowed, then primed = False.
PrimeAck ==
    /\ pc = "prime_ack"
    /\ ep85_reads' = ep85_reads + 1
    /\ \E dev \in {Returned(r) : r \in ControlResponses} \cup {Raised(e) : e \in USBErrors} :
          prime_outcomes' = prime_outcomes \cup {ReadKind(dev)}
    /\ primed' = FALSE
    /\ pc' = "prime_read"
    /\ UNCHANGED <<init_idx, alt_setting, priming_i, ctl_frame>>
    /\ UNCHANGED <<loopVars, countersVars, observedReadVars, triggerObsVars>>
    /\ UNCHANGED <<codecVars, transportVars, decodeVars, eaVars, e4Vars, toolVars>>

\* One pass of "for i in range(10)": data = self.device.read(0x82, 16384,
\* timeout=100) with every exception swallowed; primed = True on data.
PrimeRead ==
    /\ pc = "prime_read"
    /\ priming_i < PrimingReads
    /\ \E dev \in {Returned(d) : d \in packet_pool} \cup {Raised(e) : e \in USBErrors} :
          /\ prime_outcomes' = prime_outcomes \cup {ReadKind(dev)}
          /\ primed' = (primed \/ (dev.kind = "ok" /\ dev.val # <<>> /\ Len(dev.val) > 0))
    /\ priming_i' = priming_i + 1
    /\ pc' = IF priming_i + 1 < PrimingReads THEN "prime_read" ELSE "start"
    /\ UNCHANGED <<init_idx, alt_setting, ctl_frame, ep85_reads>>
    /\ UNCHANGED <<loopVars, countersVars, observedReadVars, triggerObsVars>>
    /\ UNCHANGED <<codecVars, transportVars, decodeVars, eaVars, e4Vars, toolVars>>

\* "Starting capture...": the counters are zeroed, start_time = time.time(),
\* and the while loop is entered.
StartCapture ==
    /\ pc = "start"
    /\ start_time' = now
    /\ read_count' = 0
    /\ aa8f_packets' = 0
    /\ a2c4_packets' = 0
    /\ other_packets' = 0
    /\ timeout_count' = 0
    /\ frame_numbers' = {}
    /\ left_packets' = 0
    /\ right_packets' = 0
    /\ all_data' = <<>>
    /\ packet_info' = <<>>
    /\ last_trigger_time' = 0
    /\ pc' = "loop"
    /\ UNCHANGED <<primingVars, now, duration_seconds, current_time, report, fatal_error,
                   io_after_fatal, ka_timeouts, ka_frame, last_read_at, packet_type, f>>
    /\ UNCHANGED <<observedReadVars, triggerObsVars>>
    /\ UNCHANGED <<codecVars, transportVars, decodeVars, eaVars, e4Vars, toolVars>>

\* The while test and, inside the loop, the keep-alive test.
LoopHead ==
    /\ pc = "loop"
    /\ IF LoopCondition(now, start_time, duration_seconds, timeout_count)
       THEN /\ current_time' = now
            /\ trigger_base' = last_trigger_time
            /\ IF TriggerDue(now, last_trigger_time)
               THEN /\ pc' = "ka_write"
                    /\ trigger_attempted' = TRUE
                    /\ trigger_gap' = IF prev_attempt_time < 0 THEN 0
                                      ELSE now - prev_attempt_time
                    /\ prev_attempt_time' = now
               ELSE /\ pc' = "read"
                    /\ trigger_attempted' = FALSE
                    /\ UNCHANGED <<trigger_gap, prev_attempt_time>>
       ELSE /\ pc' = "summary"
            /\ UNCHANGED <<current_time, triggerObsVars>>
    /\ UNCHANGED <<now, duration_seconds, start_time, last_trigger_time, timeout_count,
                   report, fatal_error, io_after_fatal, ka_timeouts, ka_frame, last_read_at>>
    /\ UNCHANGED <<countersVars, observedReadVars>>
    /\ UNCHANGED <<codecVars, transportVars, decodeVars, eaVars, e4Vars, primingVars, toolVars>>

\* self.device.write(0x04, cmd_95, timeout=100); any exception skips the rest
\* of the keep-alive block, last_trigger_time included.
KeepAliveWrite ==
    /\ pc = "ka_write"
    /\ io_after_fatal' = (io_after_fatal \/ fatal_error)
    /\ ka_frame' = cmd_95
    /\ \/ \E dt \in 0..KaWriteTimeout :
            /\ now' = now + dt
            /\ pc' = "ka_ack"
            /\ UNCHANGED <<fatal_error, ka_timeouts>>
       \/ \E e \in USBErrors :
            /\ pc' = "read"
            /\ IF IsTimeout(e)
               THEN /\ now' = now + KaWriteTimeout
                    /\ ka_timeouts' = TRUE
                    /\ UNCHANGED fatal_error
               ELSE /\ \E dt \in 0..KaWriteTimeout : now' = now + dt
                    /\ fatal_error' = TRUE
                    /\ UNCHANGED ka_timeouts
    /\ UNCHANGED <<duration_seconds, start_time, current_time, last_trigger_time,
                   timeout_count, report, last_read_at>>
    /\ UNCHANGED <<countersVars, observedReadVars, triggerObsVars>>
    /\ UNCHANGED <<codecVars, transportVars, decodeVars, eaVars, e4Vars, primingVars, toolVars>>

\* self.device.read(0x85, 64, timeout=50) with every exception swallowed, then
\* last_trigger_time = current_time.
KeepAliveAck ==
    /\ pc = "ka_ack"
    /\ io_after_fatal' = (io_after_fatal \/ fatal_error)
    /\ \/ \E dt \in 0..KaAckTimeout, ack \in AckResponses :
            /\ now' = now + dt
            /\ all_data' = AfterAck(all_data, ack)
            /\ UNCHANGED <<fatal_error, ka_timeouts>>
       \/ \E e \in USBErrors :
            /\ IF IsTimeout(e)
               THEN /\ now' = now + KaAckTimeout
                    /\ ka_timeouts' = TRUE
                    /\ UNCHANGED fatal_error
               ELSE /\ \E dt \in 0..KaAckTimeout : now' = now + dt
                    /\ fatal_error' = TRUE
                    /\ UNCHANGED ka_timeouts
            /\ UNCHANGED all_data
    /\ last_trigger_time' = current_time
    /\ pc' = "read"
    /\ UNCHANGED <<duration_seconds, start_time, current_time, timeout_count, report,
                   ka_frame, last_read_at>>
    /\ UNCHANGED <<read_count, aa8f_packets, a2c4_packets, other_packets, frame_numbers,
                   left_packets, right_packets, packet_type, f, packet_info>>
    /\ UNCHANGED <<observedReadVars, triggerObsVars>>
    /\ UNCHANGED <<codecVars, transportVars, decodeVars, eaVars, e4Vars, primingVars, toolVars>>

\* data = self.device.read(0x82, 16384, timeout=50) and the handling of the
\* packet or of the USBError.
StreamRead ==
    /\ pc = "read"
    /\ io_after_fatal' = (io_after_fatal \/ fatal_error)
    /\ last_read_at' = now
    /\ \/ \E data \in packet_pool, dt \in 0..StreamReadTimeout :
            /\ stream_reads < MaxPackets
            /\ now' = now + dt
            /\ stream_reads' = stream_reads + 1
            /\ last_data' = data
            /\ UNCHANGED packet_pool
            /\ IF data # <<>>
               THEN /\ read_count' = read_count + 1
                    /\ packet_type' = classify(data)
                    /\ last_counted' = CounterOf(classify(data))
                    /\ aa8f_packets' = aa8f_packets +
                          (IF CounterOf(classify(data)) = "aa8f" THEN 1 ELSE 0)
                    /\ a2c4_packets' = a2c4_packets +
                          (IF CounterOf(classify(data)) = "a2c4" THEN 1 ELSE 0)
                    /\ other_packets' = other_packets +
                          (IF CounterOf(classify(data)) = "other" THEN 1 ELSE 0)
                    /\ frame_numbers' = IF Decodes(data)
                                        THEN frame_numbers \cup {FrameNum(data)}
                                        ELSE frame_numbers
                    /\ left_packets' = left_packets +
                          (IF Decodes(data) /\ CameraFlag(data) = 252 THEN 1 ELSE 0)
                    /\ right_packets' = right_packets +
                          (IF Decodes(data) /\ CameraFlag(data) = 253 THEN 1 ELSE 0)
                    /\ packet_info' = Append(packet_info, PacketInfo(all_data, data))
                    /\ f' = Extend(f, data)
                    /\ all_data' = Extend(all_data, data)
                    /\ timeout_count' = 0
               ELSE /\ last_counted' = "none"
                    /\ UNCHANGED <<countersVars, timeout_count>>
            /\ UNCHANGED fatal_error
       \/ \E e \in USBErrors :
            /\ IF IsTimeout(e)
               THEN /\ now' = now + StreamReadTimeout
                    /\ timeout_count' = timeout_count + 1
                    /\ UNCHANGED fatal_error
               ELSE /\ \E dt \in 0..StreamReadTimeout : now' = now + dt
                    /\ fatal_error' = TRUE
                    /\ UNCHANGED timeout_count
            /\ UNCHANGED <<countersVars, observedReadVars>>
    /\ pc' = "loop"
    /\ UNCHANGED <<duration_seconds, start_time, current_time, last_trigger_time,
                   report, ka_timeouts, ka_frame>>
    /\ UNCHANGED triggerObsVars
    /\ UNCHANGED <<codecVars, transportVars, decodeVars, eaVars, e4Vars, primingVars, toolVars>>

\* elapsed = time.time() - start_time and the printed capture summary.
Summary ==
    /\ pc = "summary"
    /\ report' = SummaryOf(now - start_time, read_count, timeout_count, all_data,
                           aa8f_packets, a2c4_packets, other_packets,
                           left_packets, right_packets, frame_numbers)
    /\ pc' = "closed"
    /\ UNCHANGED <<now, duration_seconds, start_time, current_time, last_trigger_time,
                   timeout_count, fatal_error, io_after_fatal, ka_timeouts, ka_frame,
                   last_read_at>>
    /\ UNCHANGED <<countersVars, observedReadVars, triggerObsVars>>
    /\ UNCHANGED <<codecVars, transportVars, decodeVars, eaVars, e4Vars, primingVars, toolVars>>

-----------------------------------------------------------------------------
(* main: find the device, claim the interface, run one operation, release *)

\* The options that select an operation, in the order of the if/elif chain.
OpOrder ==
    << "scan", "stream", "start_cmds", "ep87", "ep06", "extended", "exact", "ctrl",
       "discover", "uvc", "capture" >>

\* The method each option runs; probe_stereo_cameras is the else branch.
OpOf(flag) ==
    CASE flag = "scan"       -> "probe_various_commands"
      [] flag = "stream"     -> "try_streaming"
      [] flag = "start_cmds" -> "try_start_commands"
      [] flag = "ep87"       -> "explore_ep87"
      [] flag = "ep06"       -> "probe_ep06_commands"
      [] flag = "extended"   -> "extended_stream_probe"
      [] flag = "exact"      -> "exact_disasm_sequence"
      [] flag = "ctrl"       -> "try_control_transfers"
      [] flag = "discover"   -> "try_discovered_init"
      [] flag = "uvc"        -> "explore_uvc_and_alternate"
      [] flag = "capture"    -> "capture_ep82_stream"

\* The options given on the command line, at most this many at once.
MaxFlags == 2

\* Device reads and writes of one run that are followed one by one.
MaxOpIo == 2

FlagSets == {fs \in SUBSET {OpOrder[i] : i \in 1..Len(OpOrder)} : Cardinality(fs) <= MaxFlags}

\* The selected operations run one after the other, as a chain of plain ifs
\* would run them.
Dispatch_every_flag(flags) ==
    LET sel == SelectSeq(OpOrder, LAMBDA fl : fl \in flags)
    IN  IF sel = <<>> THEN <<"probe_stereo_cameras">>
        ELSE [i \in 1..Len(sel) |-> OpOf(sel[i])]

\* The if/elif/else chain: the operation of the first option given, in the
\* chain's order, or probe_stereo_cameras when none is given.
Dispatch(flags) ==
    LET sel == SelectSeq(OpOrder, LAMBDA fl : fl \in flags)
    IN  IF sel = <<>> THEN <<"probe_stereo_cameras">> ELSE <<OpOf(sel[1])>>

\* probe.release() placed after the try block, with no finally.
ReleaseRuns_without_finally(exc) == ~exc

\* finally: probe.release() runs whether or not the operation raised.
ReleaseRuns(exc) == TRUE

MainIdle ==
    /\ main_pc = "idle"
    /\ args = [list_endpoints |-> FALSE, flags |-> {}, interface |-> 0]
    /\ device_found = FALSE
    /\ interface = -1
    /\ claimed = FALSE
    /\ run_queue = <<>>
    /\ op_running = "none"
    /\ ops_started = 0
    /\ op_io = 0
    /\ release_calls = 0
    /\ release_interface_calls = 0
    /\ raised = FALSE
    /\ exit_code = -1

\* main has parsed its arguments and built the probe object.
MainInit ==
    /\ main_pc = "find"
    /\ args \in [list_endpoints : BOOLEAN, flags : FlagSets, interface : {0, 1}]
    /\ device_found = FALSE
    /\ interface = -1
    /\ claimed = FALSE
    /\ run_queue = <<>>
    /\ op_running = "none"
    /\ ops_started = 0
    /\ op_io = 0
    /\ release_calls = 0
    /\ release_interface_calls = 0
    /\ raised = FALSE
    /\ exit_code = -1

\* if not probe.find_device(): return 1
FindDevice ==
    /\ main_pc = "find"
    /\ \/ /\ device_found' = TRUE
          /\ main_pc' = IF args.list_endpoints THEN "list" ELSE "claim"
          /\ UNCHANGED exit_code
       \/ /\ device_found' = FALSE
          /\ main_pc' = "done"
          /\ exit_code' = 1
    /\ UNCHANGED <<args, interface, claimed, run_queue, op_running, ops_started, op_io,
                   release_calls, release_interface_calls, raised>>
    /\ UNCHANGED <<modelVars, seqVars, probeVars, appVars>>

\* if args.list_endpoints: probe.list_endpoints(); return 0
ListEndpoints ==
    /\ main_pc = "list"
    /\ main_pc' = "done"
    /\ exit_code' = 0
    /\ UNCHANGED <<args, device_found, interface, claimed, run_queue, op_running,
                   ops_started, op_io, release_calls, release_interface_calls, raised>>
    /\ UNCHANGED <<modelVars, seqVars, probeVars, appVars>>

\* if not probe.claim_interface(args.interface): return 1
\* claim_interface sets self.interface once usb.util.claim_interface went
\* through and returns False on a USBError; an exception of another class
\* (the kernel-driver calls raise NotImplementedError where unsupported)
\* leaves main, which is outside its try block here.
ClaimInterface ==
    /\ main_pc = "claim"
    /\ \/ /\ claimed' = TRUE
          /\ interface' = args.interface
          /\ main_pc' = "dispatch"
          /\ UNCHANGED <<exit_code, raised>>
       \/ /\ \E e \in USBErrors : TRUE
          /\ main_pc' = "done"
          /\ exit_code' = 1
          /\ UNCHANGED <<claimed, interface, raised>>
       \/ /\ main_pc' = "done"
          /\ raised' = TRUE
          /\ UNCHANGED <<claimed, interface, exit_code>>
    /\ UNCHANGED <<args, device_found, run_queue, op_running, ops_started, op_io,
                   release_calls, release_interface_calls>>
    /\ UNCHANGED <<modelVars, seqVars, probeVars, appVars>>

\* try: the if/elif chain selects what runs.
DispatchOp ==
    /\ main_pc = "dispatch"
    /\ run_queue' = Dispatch(args.flags)
    /\ main_pc' = "op"
    /\ UNCHANGED <<args, device_found, interface, claimed, op_running, ops_started, op_io,
                   release_calls, release_interface_calls, raised, exit_code>>
    /\ UNCHANGED <<modelVars, seqVars, probeVars, appVars>>

\* The call of a selected operation.
OpStart ==
    /\ main_pc = "op"
    /\ op_running = "none"
    /\ run_queue # <<>>
    /\ op_running' = Head(run_queue)
    /\ run_queue' = Tail(run_queue)
    /\ ops_started' = ops_started + 1
    /\ UNCHANGED <<main_pc, args, device_found, interface, claimed, op_io,
                   release_calls, release_interface_calls, raised, exit_code>>
    /\ UNCHANGED <<modelVars, seqVars, probeVars, appVars>>

\* A device read or write of the operation in progress.
OpIo ==
    /\ main_pc = "op"
    /\ op_running # "none"
    /\ op_io < MaxOpIo
    /\ op_io' = op_io + 1
    /\ UNCHANGED <<main_pc, args, device_found, interface, claimed, run_queue, op_running,
                   ops_started, release_calls, release_interface_calls, raised, exit_code>>
    /\ UNCHANGED <<modelVars, seqVars, probeVars, appVars>>

\* The operation returns, or raises an exception it does not catch.
OpEnd ==
    /\ main_pc = "op"
    /\ op_running # "none"
    /\ op_running' = "none"
    /\ \/ /\ UNCHANGED raised
          /\ main_pc' = IF run_queue = <<>> THEN "finally" ELSE "op"
       \/ /\ raised' = TRUE
          /\ main_pc' = "finally"
    /\ UNCHANGED <<args, device_found, interface, claimed, run_queue, ops_started, op_io,
                   release_calls, release_interface_calls, exit_code>>
    /\ UNCHANGED <<modelVars, seqVars, probeVars, appVars>>

\* finally: probe.release(), then return 0 or let the exception go on.
\* release(): if self.device and self.interface is not None:
\*     usb.util.release_interface(...), every exception swallowed.
Release ==
    /\ main_pc = "finally"
    /\ IF ReleaseRuns(raised)
       THEN /\ release_calls' = release_calls + 1
            /\ IF device_found /\ interface # -1
               THEN /\ release_interface_calls' = release_interface_calls + 1
                    /\ claimed' \in {FALSE, claimed}
               ELSE UNCHANGED <<release_interface_calls, claimed>>
       ELSE UNCHANGED <<release_calls, release_interface_calls, claimed>>
    /\ exit_code' = IF raised THEN exit_code ELSE 0
    /\ main_pc' = "done"
    /\ UNCHANGED <<args, device_found, interface, run_queue, op_running, ops_started,
                   op_io, raised>>
    /\ UNCHANGED <<modelVars, seqVars, probeVars, appVars>>

-----------------------------------------------------------------------------
(* Initialization sequences of exact_disasm_sequence *)

\* last_status = None
NoStatus == -2

\* Some of the fifteen cmd_sequence lists: three ending with 0xEA, the last
\* of them the longest, and the one with 0xEA followed by 0xE4.
Sequences ==
    { <<238, 234>>, <<238, 234, 228>>, <<224, 225, 234>>,
      <<224, 225, 229, 230, 231, 232, 238, 234>> }

\* What a read on EP 0x85 may deliver for cmd_type.
SeqResponses(cmd_type) ==
    { <<>>, <<250, 85, cmd_type>>,
      Response(cmd_type, 0, 0, 0), Response(cmd_type, 1, 0, 0) }

\* status = response[3] if len(response) > 3 else -1
SeqStatus(resp) == IF Len(resp) > 3 THEN resp[4] ELSE -1

\* if last_status == 0 and cmd_sequence[-1] == 0xEA
FollowUpDue(last, sequence) == last = 0 /\ sequence[Len(sequence)] = 234

SeqIdle ==
    /\ seq_pc = "idle"
    /\ cmd_sequence = <<>>
    /\ seq_i = 0
    /\ last_status = NoStatus
    /\ ea_answer = "unsent"
    /\ ea_answer_status = NoStatus
    /\ followup_attempted = FALSE
    /\ followup_reads = 0

\* for desc, cmd_sequence in sequences: last_status = None
SeqInit ==
    /\ seq_pc = "write"
    /\ cmd_sequence \in Sequences
    /\ seq_i = 1
    /\ last_status = NoStatus
    /\ ea_answer = "unsent"
    /\ ea_answer_status = NoStatus
    /\ followup_attempted = FALSE
    /\ followup_reads = 0

\* After a command of the sequence: the next one, or the end of the for loop.
SeqAdvance(i) == IF i < Len(cmd_sequence) THEN "write" ELSE "check"

\* self.device.write(0x04, cmd, timeout=1500); a USBError breaks out of the
\* for loop.
SeqWrite ==
    /\ seq_pc = "write"
    /\ \/ /\ seq_pc' = "read"
          /\ UNCHANGED ea_answer
       \/ /\ \E e \in USBErrors : TRUE
          /\ seq_pc' = "check"
          /\ ea_answer' = IF cmd_sequence[seq_i] = 234 THEN "error" ELSE ea_answer
    /\ UNCHANGED <<cmd_sequence, seq_i, last_status, ea_answer_status, followup_attempted,
                   followup_reads>>
    /\ UNCHANGED <<modelVars, mainVars, probeVars, appVars>>

\* response = self.device.read(0x85, 512, timeout=1500); if response:
\* last_status = status; a USBError breaks out of the for loop.
SeqRead ==
    /\ seq_pc = "read"
    /\ \/ \E resp \in SeqResponses(cmd_sequence[seq_i]) :
            /\ last_status' = IF resp # <<>> THEN SeqStatus(resp) ELSE last_status
            /\ IF cmd_sequence[seq_i] = 234
               THEN /\ ea_answer' = IF resp # <<>> THEN "status" ELSE "empty"
                    /\ ea_answer_status' = IF resp # <<>> THEN SeqStatus(resp) ELSE NoStatus
               ELSE UNCHANGED <<ea_answer, ea_answer_status>>
            /\ seq_pc' = SeqAdvance(seq_i)
            /\ seq_i' = IF seq_i < Len(cmd_sequence) THEN seq_i + 1 ELSE seq_i
       \/ /\ \E e \in USBErrors : TRUE
          /\ seq_pc' = "check"
          /\ ea_answer' = IF cmd_sequence[seq_i] = 234 THEN "error" ELSE ea_answer
          /\ UNCHANGED <<last_status, ea_answer_status, seq_i>>
    /\ UNCHANGED <<cmd_sequence, followup_attempted, followup_reads>>
    /\ UNCHANGED <<modelVars, mainVars, probeVars, appVars>>

\* if last_status == 0 and cmd_sequence[-1] == 0xEA:
SeqCheck ==
    /\ seq_pc = "check"
    /\ seq_pc' = IF FollowUpDue(last_status, cmd_sequence) THEN "e4_write" ELSE "done"
    /\ UNCHANGED <<cmd_sequence, seq_i, last_status, ea_answer, ea_answer_status,
                   followup_attempted, followup_reads>>
    /\ UNCHANGED <<modelVars, mainVars, probeVars, appVars>>

\* The follow-up: self.device.write(0x04, cmd, timeout=1500) of the 0xE4 frame.
SeqFollowUpWrite ==
    /\ seq_pc = "e4_write"
    /\ followup_attempted' = TRUE
    /\ \/ seq_pc' = "e4_read"
       \/ /\ \E e \in USBErrors : TRUE
          /\ seq_pc' = "done"
    /\ UNCHANGED <<cmd_sequence, seq_i, last_status, ea_answer, ea_answer_status,
                   followup_reads>>
    /\ UNCHANGED <<modelVars, mainVars, probeVars, appVars>>

\* The follow-up: response = self.device.read(0x85, 4096, timeout=500)
SeqFollowUpRead ==
    /\ seq_pc = "e4_read"
    /\ followup_reads' = followup_reads + 1
    /\ seq_pc' = "done"
    /\ UNCHANGED <<cmd_sequence, seq_i, last_status, ea_answer, ea_answer_status,
                   followup_attempted>>
    /\ UNCHANGED <<modelVars, mainVars, probeVars, appVars>>

-----------------------------------------------------------------------------
(* probe_stereo_cameras, probe_various_commands, try_start_commands *)

ProbeFunctions == {"probe_stereo_cameras", "probe_various_commands", "try_start_commands"}

\* The frames each function sends, in order.
ProbeCommands(fn) ==
    CASE fn = "probe_stereo_cameras" ->
            << build_stereo_command(234, 2048, 1, 0) >>
      [] fn = "probe_various_commands" ->
            << build_stereo_command(234, 2048, 1, 0), build_stereo_command(234, 2048, 1, 0),
               build_stereo_command(234, 2048, 1, 1), build_stereo_command(234, 2048, 0, 0),
               build_stereo_command(1, 2048, 1, 0), build_stereo_command(0, 2048, 1, 0),
               build_stereo_command(234, 64, 1, 0) >>
      [] fn = "try_start_commands" ->
            << <<1, 0, 0, 0, 0>>, <<250, 85, 1, 0, 0>>, <<250, 85, 234, 1, 0>>,
               build_stereo_command(1, 2048, 1, 0), build_stereo_command(2, 2048, 1, 0),
               build_stereo_command(16, 2048, 1, 0), build_stereo_command(32, 2048, 1, 0),
               build_stereo_command(113, 2048, 1, 0) >>

\* for _ in range(4) in try_start_commands.
ProbeReads_four(fn) == IF fn = "try_start_commands" THEN 4 ELSE 1

\* "if response": bytes that are not empty; None and b'' are falsy.
Truthy(resp) == resp.tag = "bytes" /\ resp.val # <<>>

\* Reads per sent command: one, or for _ in range(3) in try_start_commands.
ProbeReads(fn) == IF fn = "try_start_commands" THEN 3 ELSE 1

\* The test of the send result that lets every result through.
SendFailed_never(result) == result < -1

\* if result < 0
SendFailed(result) == result < 0

\* After a command: the next of the list, or the end of the function.
\* probe_stereo_cameras returns after its one command.
ProbeAdvance(fn, idx) == IF idx < Len(ProbeCommands(fn)) THEN "send" ELSE "done"

ProbeIdle ==
    /\ probe_pc = "idle"
    /\ probe_fn = "none"
    /\ probe_idx = 0
    /\ probe_result = 0
    /\ probe_reads = 0
    /\ probe_written = FALSE
    /\ probe_got = FALSE
    /\ probe_log = {}

ProbeInit ==
    /\ probe_pc = "send"
    /\ probe_fn \in ProbeFunctions
    /\ probe_idx = 1
    /\ probe_result = 0
    /\ probe_reads = 0
    /\ probe_written = FALSE
    /\ probe_got = FALSE
    /\ probe_log = {}

\* result = self.send_command(cmd); if result < 0: return False / continue
ProbeSend ==
    /\ probe_pc = "send"
    /\ LET frame == ProbeCommands(probe_fn)[probe_idx]
       IN  \E dev \in {Written(Len(frame))} \cup {WriteRaised(e) : e \in USBErrors} :
              LET result == send_command(frame, dev)
              IN  /\ probe_result' = result
                  /\ probe_written' = (dev.kind = "ok")
                  /\ probe_reads' = 0
                  /\ probe_got' = FALSE
                  /\ IF SendFailed(result)
                     THEN /\ probe_log' = probe_log \cup
                                 { [written |-> dev.kind = "ok", result |-> result, reads |-> 0,
                                    got |-> FALSE] }
                          /\ probe_pc' = ProbeAdvance(probe_fn, probe_idx)
                          /\ probe_idx' = probe_idx + 1
                     ELSE /\ probe_pc' = "read"
                          /\ UNCHANGED <<probe_log, probe_idx>>
    /\ UNCHANGED probe_fn
    /\ UNCHANGED <<modelVars, mainVars, seqVars, appVars>>

\* response = self.read_response(...); try_start_commands reads again, up to
\* three times, while the response is None or empty.
ProbeRead ==
    /\ probe_pc = "read"
    /\ \E dev \in {Returned(r) : r \in ControlResponses} \cup {Raised(e) : e \in USBErrors} :
          LET resp == read_response(dev)
              got  == Truthy(resp)
          IN  /\ probe_reads' = probe_reads + 1
              /\ probe_got' = got
              /\ IF ~got /\ probe_reads + 1 < ProbeReads(probe_fn)
                 THEN UNCHANGED <<probe_pc, probe_idx, probe_log>>
                 ELSE /\ probe_log' = probe_log \cup
                             { [written |-> probe_written, result |-> probe_result,
                                reads |-> probe_reads + 1, got |-> got] }
                      /\ probe_pc' = ProbeAdvance(probe_fn, probe_idx)
                      /\ probe_idx' = probe_idx + 1
    /\ UNCHANGED <<probe_fn, probe_result, probe_written>>
    /\ UNCHANGED <<modelVars, mainVars, seqVars, appVars>>

-----------------------------------------------------------------------------
(* hud_pygame.py: the text editor of the main loop *)

\* "Type here..."
InitialLine == <<"T", "y", "p", "e", " ", "h", "e", "r", "e", ".", ".", ".">>

\* The longest text followed: lines in the list, characters in a line.
MaxLines   == 3
MaxLineLen == 13

\* event.unicode of a key that is none of Escape, Return, Backspace: a
\* character, or "" for a key that produces none (a modifier, an arrow).
Unicodes == {"x", ""}

\* elif current_line > 0, with the test left out.
CanPop_always(cur) == TRUE

\* elif current_line > 0: the empty line is removed unless it is the first.
CanPop(cur) == cur > 0

\* lines[current_line][:-1]
DropLast(line) == SubSeq(line, 1, Len(line) - 1)

\* lines.pop()
Pop(ls) == SubSeq(ls, 1, Len(ls) - 1)

\* The line at index cur (from 0) replaced by line.
WithLine(ls, cur, line) == [ls EXCEPT ![cur + 1] = line]

HudIdle ==
    /\ lines = <<>>
    /\ current_line = 0
    /\ running = FALSE

\* lines = ["Type here..."]; current_line = 0; running = True
HudInit ==
    /\ lines = <<InitialLine>>
    /\ current_line = 0
    /\ running = TRUE

\* pygame.QUIT, or KEYDOWN with K_ESCAPE: running = False
HudQuit ==
    /\ running
    /\ running' = FALSE
    /\ UNCHANGED <<lines, current_line>>
    /\ UNCHANGED <<modelVars, mainVars, seqVars, probeVars, btnVars>>

\* K_RETURN: lines.append(""); current_line += 1
HudReturn ==
    /\ running
    /\ Len(lines) < MaxLines
    /\ lines' = Append(lines, <<>>)
    /\ current_line' = current_line + 1
    /\ UNCHANGED running
    /\ UNCHANGED <<modelVars, mainVars, seqVars, probeVars, btnVars>>

\* K_BACKSPACE: the last character of the current line goes, or, the line
\* being empty and not the first, the line itself.
HudBackspace ==
    /\ running
    /\ IF lines[current_line + 1] # <<>>
       THEN /\ lines' = WithLine(lines, current_line, DropLast(lines[current_line + 1]))
            /\ UNCHANGED current_line
       ELSE IF CanPop(current_line)
       THEN /\ current_line' = current_line - 1
            /\ lines' = Pop(lines)
       ELSE UNCHANGED <<lines, current_line>>
    /\ UNCHANGED running
    /\ UNCHANGED <<modelVars, mainVars, seqVars, probeVars, btnVars>>

\* Any other key: if event.unicode: lines[current_line] += event.unicode
HudKey ==
    /\ running
    /\ \E u \in Unicodes :
          IF u # ""
          THEN /\ Len(lines[current_line + 1]) < MaxLineLen
               /\ lines' = WithLine(lines, current_line, Append(lines[current_line + 1], u))
          ELSE UNCHANGED lines
    /\ UNCHANGED <<current_line, running>>
    /\ UNCHANGED <<modelVars, mainVars, seqVars, probeVars, btnVars>>

-----------------------------------------------------------------------------
(* viture_buttons.py and viture_buttons2.py: the listen loops *)

ButtonScripts == {"viture_buttons", "viture_buttons2"}

\* The endpoints a polling round reads: 0x83, or endpoints = [0x82, 0x84, 0x86].
Endpoints(script) == IF script = "viture_buttons2" THEN <<130, 132, 134>> ELSE <<131>>

\* What dev.read does: returns data or an empty array, or raises; a
\* KeyboardInterrupt may arrive while it waits.
ReadOutcomes == {"data", "empty", "USBTimeoutError", "USBError", "KeyboardInterrupt"}

\* Polling rounds of viture_buttons2 followed.
MaxRounds == 3

\* except usb.core.USBError: pass, every USB error taken for a timeout.
IsUSBTimeoutError_any_usb_error(outcome) == outcome \in {"USBTimeoutError", "USBError"}

\* except usb.core.USBTimeoutError: pass
IsUSBTimeoutError(outcome) == outcome = "USBTimeoutError"

\* except KeyboardInterrupt: print("\nStopped."); except Exception: print(f"Error: {e}")
ExitMessage(outcome) == IF outcome = "KeyboardInterrupt" THEN "Stopped." ELSE "Error"

BtnInit ==
    /\ btn_script \in ButtonScripts
    /\ btn_pc = "read"
    /\ btn_ep = 1
    /\ btn_count = 0
    /\ btn_round = <<>>
    /\ btn_exit = ""

\* data = dev.read(ep, ..., timeout=...) and what the except clauses make of
\* its outcome; after the last endpoint of a round of viture_buttons2,
\* count += 1.
BtnRead ==
    /\ btn_pc = "read"
    /\ btn_count < MaxRounds
    /\ \E o \in ReadOutcomes :
          LET entry == [ep |-> Endpoints(btn_script)[btn_ep], outcome |-> o]
          IN  /\ btn_round' = IF btn_ep = 1 THEN <<entry>> ELSE Append(btn_round, entry)
              /\ IF o \in {"data", "empty"} \/ IsUSBTimeoutError(o)
                 THEN /\ UNCHANGED <<btn_pc, btn_exit>>
                      /\ IF btn_ep < Len(Endpoints(btn_script))
                         THEN /\ btn_ep' = btn_ep + 1
                              /\ UNCHANGED btn_count
                         ELSE /\ btn_ep' = 1
                              /\ btn_count' = IF btn_script = "viture_buttons2"
                                              THEN btn_count + 1 ELSE btn_count
                 ELSE /\ btn_pc' = "stopped"
                      /\ btn_exit' = ExitMessage(o)
                      /\ UNCHANGED <<btn_ep, btn_count>>
    /\ UNCHANGED btn_script
    /\ UNCHANGED <<modelVars, mainVars, seqVars, probeVars, hudVars>>

BtnIdle ==
    /\ btn_script = "none"
    /\ btn_pc = "idle"
    /\ btn_ep = 0
    /\ btn_count = 0
    /\ btn_round = <<>>
    /\ btn_exit = ""

AppIdle == HudIdle /\ BtnIdle

ToolIdle == MainIdle /\ SeqIdle /\ ProbeIdle /\ AppIdle

-----------------------------------------------------------------------------
(* Specifications *)

SpecCodecInit == ToolIdle /\ EaIdle /\ DecodeIdle /\ CaptureIdle /\ CodecInit /\ TransportInit /\ E4Idle
SpecCodecNext == BuildStereoCommand \/ BuildShortCommand
SpecCodec     == SpecCodecInit /\ [][SpecCodecNext]_vars

SpecTransportInit == ToolIdle /\ EaIdle /\ DecodeIdle /\ CaptureIdle /\ CodecIdle /\ TransportInit /\ E4Idle
SpecTransportNext == ReadResponse \/ SendCommand
SpecTransport     == SpecTransportInit /\ [][SpecTransportNext]_vars

SpecExchangeInit ==
    /\ ToolIdle /\ DecodeIdle /\ CaptureIdle /\ CodecIdle /\ TransportInit
    /\ \/ EaIdle /\ E4Init
       \/ EaInit /\ E4Idle
SpecExchangeNext ==
    \/ EaWrite \/ EaRead
    \/ E4Write \/ E4FirstRead \/ E4ChunkRead \/ E4LoopExit \/ E4Report
SpecExchange     == SpecExchangeInit /\ [][SpecExchangeNext]_vars

SpecDecodeInit == ToolIdle /\ EaIdle /\ CaptureIdle /\ CodecIdle /\ TransportInit /\ E4Idle /\ DecodeInit
SpecDecodeNext == DecodeScan \/ DecodeStep7
SpecDecode     == SpecDecodeInit /\ [][SpecDecodeNext]_vars

SpecCaptureInit == ToolIdle /\ EaIdle /\ DecodeIdle /\ CodecIdle /\ TransportInit /\ E4Idle /\ CaptureInit
SpecCaptureNext == LoopHead \/ KeepAliveWrite \/ KeepAliveAck \/ StreamRead \/ Summary
SpecCapture     == SpecCaptureInit /\ [][SpecCaptureNext]_vars

\* The function from its entry up to the while loop.  Every device call
\* returns or raises within its timeout, so the function keeps taking steps.
SpecPrimingInit ==
    ToolIdle /\ EaIdle /\ DecodeIdle /\ CodecIdle /\ TransportInit /\ E4Idle /\ PrimingInit
SpecPrimingNext ==
    InitWrite \/ InitRead \/ AltSetting \/ PrimeWrite \/ PrimeAck \/ PrimeRead \/ StartCapture
SpecPriming ==
    SpecPrimingInit /\ [][SpecPrimingNext]_vars /\ WF_vars(SpecPrimingNext)

\* One run of the tool, from the parsed arguments to the return of main.
ModelIdle ==
    EaIdle /\ DecodeIdle /\ CaptureIdle /\ CodecIdle /\ TransportInit /\ E4Idle
SpecMainInit == ModelIdle /\ MainInit /\ SeqIdle /\ ProbeIdle /\ AppIdle
SpecMainNext ==
    \/ FindDevice \/ ListEndpoints \/ ClaimInterface \/ DispatchOp
    \/ OpStart \/ OpIo \/ OpEnd \/ Release
SpecMain     == SpecMainInit /\ [][SpecMainNext]_vars

\* One initialization sequence and its follow-up.
SpecSequenceInit == ModelIdle /\ MainIdle /\ SeqInit /\ ProbeIdle /\ AppIdle
SpecSequenceNext ==
    SeqWrite \/ SeqRead \/ SeqCheck \/ SeqFollowUpWrite \/ SeqFollowUpRead
SpecSequence     == SpecSequenceInit /\ [][SpecSequenceNext]_vars

\* One run of one of the three probe functions.
SpecProbeInit == ModelIdle /\ MainIdle /\ SeqIdle /\ ProbeInit /\ AppIdle
SpecProbeNext == ProbeSend \/ ProbeRead
SpecProbe     == SpecProbeInit /\ [][SpecProbeNext]_vars

\* The HUD editor from its start to the end of its main loop.
SpecHudInit == ModelIdle /\ MainIdle /\ SeqIdle /\ ProbeIdle /\ BtnIdle /\ HudInit
SpecHudNext == HudQuit \/ HudReturn \/ HudBackspace \/ HudKey
SpecHud     == SpecHudInit /\ [][SpecHudNext]_vars

\* One of the two button listeners, from the entry of its loop.
SpecButtonsInit == ModelIdle /\ MainIdle /\ SeqIdle /\ ProbeIdle /\ HudIdle /\ BtnInit
SpecButtonsNext == BtnRead
SpecButtons     == SpecButtonsInit /\ [][SpecButtonsNext]_vars

SpecIngestInit == ToolIdle /\ EaIdle /\ DecodeIdle /\ CodecIdle /\ TransportInit /\ E4Idle /\ IngestInit
SpecIngest     == SpecIngestInit /\ [][SpecCaptureNext]_vars

-----------------------------------------------------------------------------
(* Properties *)

\* C3: for a response declaring payload length L with fewer than L payload
\* bytes in the first read, the exchange ends either short of L (truncated,
\* at most L bytes) or with exactly L bytes: the collected payload never
\* exceeds L bytes.
C3_PayloadWithinDeclared ==
    (e4_pc \in {"loop", "report", "done"} /\ Len(header) >= 6
        /\ Len(header) - 6 < data_len)
    => total_data_len <= data_len

C5_TimeoutDistinctFromError ==
    /\ \A a, b \in read_log :
          (a.outcome = "timeout" /\ b.outcome = "error") => a.ret # b.ret
    /\ \A a, b \in write_log :
          (a.outcome = "timeout" /\ b.outcome = "error") => a.ret # b.ret

\* C1: a non-timeout transport error raised while streaming ends the session
\* at once: no further read or trigger write is issued after it.
C1_FatalErrorCloses ==
    fatal_error => ~io_after_fatal

\* C2: the session is never running later than D + one streaming-read timeout
\* + one keep-alive interval after its start, every iteration begins before D
\* has elapsed, and the elapsed time of the summary is within the same bound.
C2_ClosedWithinBound ==
    /\ now - start_time <= duration_seconds + StreamReadTimeout + KeepAliveInterval
    /\ (pc \in {"ka_write", "ka_ack", "read"}
          => current_time - start_time < duration_seconds)
    /\ (pc = "closed"
          => /\ report.printed
             /\ report.elapsed <= duration_seconds + StreamReadTimeout + KeepAliveInterval)

\* C2 witness: a capture that received nothing closed after overrunning D by
\* a whole iteration less one tick (trigger write, ack read, stream read all
\* timing out in an iteration begun one tick before D).
C2_Witness ==
    /\ pc = "closed"
    /\ report.total_reads = 0
    /\ report.elapsed =
          duration_seconds - 1 + KaWriteTimeout + KaAckTimeout + StreamReadTimeout

\* C6: timeouts never end a capture: the loop is left only once the configured
\* duration has elapsed, whatever number of timeouts came before.
C6_TimeoutsNeverClose ==
    pc \in {"summary", "closed"} => now - start_time >= duration_seconds

\* C6 witness: a capture closed after consecutive stream-read timeouts and
\* keep-alive timeouts, with no packet and no other error.
C6_Witness ==
    /\ pc = "closed"
    /\ timeout_count >= 3
    /\ ka_timeouts
    /\ ~fatal_error
    /\ read_count = 0

C8_EveryPacketTyped ==
    /\ stream_reads = aa8f_packets + a2c4_packets + other_packets
    /\ (stream_reads > 0 => last_counted \in {"aa8f", "a2c4", "other"})

\* A packet's first two bytes are the signature sig.
HasSignature(data_bytes, sig) ==
    Len(data_bytes) >= 2 /\ SubSeq(data_bytes, 1, 2) = sig

\* C9: a packet counts as FRAME iff it starts AA 8F, as TELEMETRY iff it
\* starts A2 C4, and as OTHER in every other case, packets shorter than two
\* bytes included.
C9_ClassifyBySignature ==
    stream_reads > 0 =>
        /\ (last_counted = "aa8f" <=> HasSignature(last_data, <<170, 143>>))
        /\ (last_counted = "a2c4" <=> HasSignature(last_data, <<162, 196>>))
        /\ (last_counted = "other" <=>
               (~HasSignature(last_data, <<170, 143>>)
                  /\ ~HasSignature(last_data, <<162, 196>>)))

\* C10: bytes 2, 3-4 (little-endian), 5 and 6 of the encoded long-form frame
\* give back the command code, size parameter, flag and target id.
C10_RoundTrip ==
    codec_pc = "done" =>
        /\ cmd[3] = cmd_args.cmd_type
        /\ LE16(cmd[4], cmd[5]) = cmd_args.size_param
        /\ cmd[6] = cmd_args.flag
        /\ cmd[7] = cmd_args.camera_id

\* C10 witness: a frame was encoded from a size parameter whose two bytes differ.
C10_Witness ==
    /\ codec_pc = "done"
    /\ cmd_args = [cmd_type |-> 234, size_param |-> 2048, flag |-> 1, camera_id |-> 0]
    /\ cmd = <<250, 85, 234, 0, 8, 1, 0, 0, 0, 0, 0, 0, 0>>

\* C11: every encoded frame has the length and magic of its form: a long-form
\* frame is 13 bytes, starts FA 55 and ends in six zero bytes (bytes 7..12);
\* a short-form frame is 5 bytes and starts FA 55.
C11_FixedLengthAndMagic ==
    /\ (codec_pc = "done"
          => /\ Len(cmd) = 13
             /\ cmd[1] = 250 /\ cmd[2] = 85
             /\ \A i \in 8..13 : cmd[i] = 0)
    /\ (codec_pc = "done_short"
          => /\ Len(cmd) = 5
             /\ cmd[1] = 250 /\ cmd[2] = 85)

\* C12: decoding a response shorter than the minimum header assigns nothing
\* in its place: fewer than 4 bytes give no status, 4 or 5 bytes give no
\* payload length.
C12_NoFabricatedFields ==
    dec_pc \in {"done_scan", "done_step7"} =>
        /\ (Len(response) < 4 => "status" \notin dec_assigned)
        /\ (Len(response) < 6 => "data_len" \notin dec_assigned)

\* C13: the long-form command 0xEA, size 0x0800, flag 1, target 0 encodes to
\* FA 55 EA 00 08 01 00 00 00 00 00 00 00, and when that command is answered
\* by FA 55 EA 00 05 00 the exchange decodes status 0, declared length 5 and
\* no payload byte present, and issues at least one read beyond the first.
C13_ScenarioEA ==
    /\ build_stereo_command(234, 2048, 1, 0) = <<250, 85, 234, 0, 8, 1, 0, 0, 0, 0, 0, 0, 0>>
    /\ (/\ ea_pc = "done"
        /\ ea_cmd = <<250, 85, 234, 0, 8, 1, 0, 0, 0, 0, 0, 0, 0>>
        /\ ea_response = <<250, 85, 234, 0, 5, 0>>)
       => /\ ea_status = 0
          /\ ea_data_len = 5
          /\ Len(ea_first_bytes) = 0
          /\ ea_reads >= 2

\* C14: the report of a closed session holds every counter as accumulated
\* (bytes, packets per type, packets per camera, distinct frame numbers) and
\* has a line naming the termination cause.
C14_ReportComplete ==
    pc = "closed" =>
        /\ report.printed
        /\ report.total_bytes = Len(all_data)
        /\ report.total_reads = read_count
        /\ report.aa8f = aa8f_packets
        /\ report.a2c4 = a2c4_packets
        /\ report.other = other_packets
        /\ report.left = left_packets
        /\ report.right = right_packets
        /\ report.unique_frames = Cardinality(frame_numbers)
        /\ "Termination cause" \in report.lines

\* C15: a capture in which no read of the streaming channel ever returned
\* closes with a printed summary of 0 bytes, 0 reads, 0 packets of each type
\* and of each camera, and 0 distinct frame numbers.
C15_EmptyCaptureReportsZero ==
    (pc = "closed" /\ stream_reads = 0) =>
        /\ report.printed
        /\ report.total_bytes = 0
        /\ report.total_reads = 0
        /\ report.aa8f = 0 /\ report.a2c4 = 0 /\ report.other = 0
        /\ report.left = 0 /\ report.right = 0
        /\ report.unique_frames = 0

\* C15 witness: a capture closed after every read of the streaming channel
\* timed out, with no other error.
C15_Witness ==
    /\ pc = "closed"
    /\ stream_reads = 0
    /\ ~fatal_error
    /\ timeout_count >= duration_seconds - KaWriteTimeout - KaAckTimeout
    /\ report.printed /\ report.total_bytes = 0

\* C16: a trigger write is issued only while the duration has not expired,
\* and once the loop has been left the session never returns to a step that
\* writes to the device.
C16_NoWriteAfterExpiry ==
    /\ [](pc = "ka_write" => now - start_time < duration_seconds)
    /\ [](pc \in {"summary", "closed"} => prev_attempt_time - start_time < duration_seconds)
    /\ [][(pc = "summary" \/ pc = "closed")
            => (pc' \in {"summary", "closed"}
                  /\ prev_attempt_time' = prev_attempt_time
                  /\ ka_frame' = ka_frame)]_vars

\* C16 witness: a session closed whose last trigger was written in an
\* iteration begun one tick before the duration expired.
C16_Witness ==
    /\ pc = "closed"
    /\ ka_frame = cmd_95
    /\ prev_attempt_time = start_time + duration_seconds - 1

\* C17: a session is closed only after a read of the streaming channel that
\* was issued once the duration had expired.
C17_DrainBeforeClosed ==
    pc = "closed" => last_read_at - start_time >= duration_seconds

\* C18: whenever the latest frame written to EP 0x04 is the trigger, at least
\* one read of EP 0x85 was issued before it: the first trigger is written
\* only after a drain of the control-response channel.
C18_DrainBeforeFirstTrigger ==
    (ctl_frame = cmd_95 /\ pc \in {"init_read", "prime_ack"}) => ep85_reads >= 1

\* C19: priming ends and the capture loop is entered in every run: once the
\* first trigger is written the loop is reached whatever the ack read and the
\* priming reads do, after at most 10 priming reads.
C19_StreamingAlwaysEntered ==
    /\ <>(pc = "loop")
    /\ (pc = "prime_ack" ~> pc = "loop")
    /\ [](priming_i <= 10)
    /\ [](pc = "loop" => (priming_i = 0 \/ priming_i = 10))

\* C19 witness: the loop was entered after the first trigger although the ack
\* read and all 10 priming reads timed out.
C19_Witness ==
    /\ pc = "loop"
    /\ init_idx = 8
    /\ ctl_frame = cmd_95
    /\ priming_i = 10
    /\ ~primed
    /\ prime_outcomes = {"timeout"}

\* C20: a read that returns a packet of at least 12 bytes starting AA 8F adds
\* the 16-bit little-endian number at bytes 4-5 to the distinct frame numbers
\* and increments the left counter iff byte 8 is 0xFC and the right counter
\* iff byte 8 is 0xFD, hence at most one of the two.
C20_FrameFieldsDecoded ==
    [][(/\ stream_reads' = stream_reads + 1
        /\ Len(last_data') >= 12
        /\ last_data'[1] = 170 /\ last_data'[2] = 143)
       => (/\ frame_numbers' = frame_numbers \cup {last_data'[6] * 256 + last_data'[5]}
           /\ left_packets' = left_packets + (IF last_data'[9] = 252 THEN 1 ELSE 0)
           /\ right_packets' = right_packets + (IF last_data'[9] = 253 THEN 1 ELSE 0)
           /\ (left_packets' + right_packets') - (left_packets + right_packets) <= 1)]_vars

\* C20 witness: a left packet of frame 258 and a right packet of frame 1 were
\* ingested.
C20_Witness ==
    /\ stream_reads = 2
    /\ frame_numbers = {1, 258}
    /\ left_packets = 1
    /\ right_packets = 1
    /\ aa8f_packets = 2

\* C21: a packet that starts AA 8F but is shorter than 12 bytes is counted as
\* OTHER, not as FRAME.
C21_ShortFrameIsOther ==
    (stream_reads > 0 /\ HasSignature(last_data, <<170, 143>>) /\ Len(last_data) < 12)
        => last_counted = "other"

\* C22: a response with a non-zero status byte is returned to the caller as
\* the bytes read, status and declared length in place, exactly as one with
\* status 0 is, and differs from what the caller gets on a transport failure,
\* which is no response.
C22_ErrorStatusReturned ==
    \A a \in read_log :
        /\ (a.outcome = "ok" => (a.ret.tag = "bytes" /\ a.ret.val = a.data))
        /\ (a.outcome # "ok" => a.ret = None)
        /\ \A b \in read_log :
              (a.outcome = "ok" /\ Len(a.data) >= 4 /\ a.data[4] # 0 /\ b.outcome # "ok")
                  => a.ret # b.ret

\* C22 witness: a response with status 1, a timeout and another transport
\* failure have all been handed to callers.
C22_Witness ==
    /\ \E a \in read_log : a.outcome = "ok" /\ a.data = <<250, 85, 234, 1, 0, 0>>
    /\ \E b \in read_log : b.outcome = "timeout"
    /\ \E b \in read_log : b.outcome = "error"

\* C23: in one run at most one operation is started and at most one is in
\* progress, only between the claim of the interface and its release; device
\* I/O is issued only by the operation in progress, on the claimed interface.
C23_OneOperationPerRun ==
    /\ [](ops_started <= 1)
    /\ [](op_running # "none"
            => (claimed /\ release_calls = 0 /\ ops_started = 1 /\ run_queue = <<>>))
    /\ [][op_io' # op_io
            => (op_running # "none" /\ op_running' = op_running /\ claimed)]_vars

\* C23 witness: with both --exact and --capture given, exact_disasm_sequence
\* alone ran, did device I/O, and main returned.
C23_Witness ==
    /\ main_pc = "done"
    /\ args.flags = {"exact", "capture"}
    /\ ops_started = 1
    /\ op_io = MaxOpIo
    /\ exit_code = 0

\* C24: whatever the outcome of a trigger attempt, the next attempt comes no
\* earlier than one keep-alive interval after it: a trigger written after an
\* earlier attempt is more than the interval later than that attempt.
C24_NextTriggerOneIntervalLater ==
    (pc = "ka_write" /\ trigger_gap > 0) => trigger_gap > KeepAliveInterval

\* C24, the part the code keeps: the streaming read follows every trigger
\* attempt of the iteration, and a failed acknowledgement read still moves
\* last_trigger_time to this attempt.
C24_ReadFollowsAttempt ==
    [][(pc = "ka_write" \/ pc = "ka_ack")
          => (pc' \in {"ka_ack", "read"}
              /\ (pc = "ka_ack" => (pc' = "read" /\ last_trigger_time' = current_time))
              /\ last_read_at' = last_read_at)]_vars

\* C25: when the first read delivers payload bytes after the 6-byte header,
\* they are part of the accumulated payload and count toward the declared
\* length: before any continuation read the payload holds them and only the
\* rest of the declared length remains to be read.
C25_FirstReadPayloadCounted ==
    (e4_pc = "loop" /\ e4_reads_issued = 0 /\ Len(header) > 6)
        => /\ total_data_len = Len(header) - 6
           /\ bytes_remaining = data_len - (Len(header) - 6)

\* C26: the 0xE4 follow-up is attempted only if the sequence's last command,
\* 0xEA, was itself answered with status 0; never when the 0xEA exchange
\* raised a transport error or returned no response.
C26_FollowUpOnlyAfterEaSuccess ==
    (followup_attempted \/ followup_reads > 0)
        => /\ cmd_sequence[Len(cmd_sequence)] = 234
           /\ ea_answer = "status"
           /\ ea_answer_status = 0

\* C27: a response read is issued only after the command's write succeeded:
\* a read is pending or was issued only for a command whose send_command
\* returned a byte count, and a command whose send_command returned -1 got no
\* read at all.
C27_ReadOnlyAfterWrite ==
    /\ (probe_pc = "read" \/ probe_reads > 0) => (probe_written /\ probe_result >= 0)
    /\ \A c \in probe_log :
          /\ (c.result = -1 \/ ~c.written) => c.reads = 0
          /\ c.reads <= ProbeReads(probe_fn)

\* C27 witness: try_start_commands ran to its end with a command whose send
\* failed, one answered at the first read and one read three times.
C27_Witness ==
    /\ probe_pc = "done"
    /\ probe_fn = "try_start_commands"
    /\ \E c \in probe_log : c.result = -1 /\ c.reads = 0
    /\ \E c \in probe_log : c.result = 5 /\ c.reads = 1
    /\ \E c \in probe_log : c.result = 13 /\ c.reads = 3

\* C28: once main has claimed the interface, release is called exactly once
\* on every path out of main, also when the operation raised, and never
\* before the operation ended; when the device is not found, only the
\* endpoint list is requested or the claim fails, main returns without a call
\* of release and without having started an operation.
C28_ReleaseExactlyOnce ==
    /\ release_calls <= 1
    /\ (op_running # "none" \/ main_pc \in {"dispatch", "op", "finally"})
          => (interface # -1 /\ release_calls = 0)
    /\ (main_pc = "done" /\ interface # -1)
          => (release_calls = 1 /\ release_interface_calls = 1 /\ ops_started = 1)
    /\ (main_pc = "done" /\ interface = -1)
          => /\ release_calls = 0
             /\ release_interface_calls = 0
             /\ ops_started = 0
             /\ op_io = 0
             /\ exit_code = IF raised THEN -1
                             ELSE IF device_found /\ args.list_endpoints THEN 0 ELSE 1

\* C28 witness: the operation did device I/O and raised, and main was left
\* with the one call of release made.
C28_Witness ==
    /\ main_pc = "done"
    /\ raised
    /\ interface # -1
    /\ op_io > 0
    /\ release_calls = 1
    /\ release_interface_calls = 1

\* C29: at every point of a capture the three type counters add up to
\* read_count, and each non-empty packet read from the streaming channel
\* increments exactly one of them, by one.
C29_TypeCountersSumToReads ==
    /\ [](aa8f_packets + a2c4_packets + other_packets = read_count)
    /\ []((stream_reads > 0 /\ last_data # <<>>) => last_counted \in {"aa8f", "a2c4", "other"})
    /\ [][(stream_reads' # stream_reads /\ last_data' # <<>>)
            => /\ read_count' = read_count + 1
               /\ \/ /\ aa8f_packets' = aa8f_packets + 1
                     /\ UNCHANGED <<a2c4_packets, other_packets>>
                  \/ /\ a2c4_packets' = a2c4_packets + 1
                     /\ UNCHANGED <<aa8f_packets, other_packets>>
                  \/ /\ other_packets' = other_packets + 1
                     /\ UNCHANGED <<aa8f_packets, a2c4_packets>>]_vars

\* C29 witness: two packets were read, a FRAME packet and then a packet of
\* one byte, counted once each.
C29_Witness ==
    /\ read_count = 2
    /\ aa8f_packets = 1
    /\ other_packets = 1
    /\ last_data = <<170>>
    /\ packet_type = "SHORT"

\* C30: left-camera plus right-camera packets never exceed the FRAME count,
\* nor does the number of distinct frame numbers; a packet that is not a
\* FRAME packet changes neither the camera counters nor the frame-number set.
C30_CameraCountersWithinFrames ==
    /\ [](left_packets + right_packets <= aa8f_packets)
    /\ [](Cardinality(frame_numbers) <= aa8f_packets)
    /\ [][(stream_reads' # stream_reads /\ ~HasSignature(last_data', <<170, 143>>))
            => UNCHANGED <<left_packets, right_packets, frame_numbers>>]_vars

\* C30 witness: a left-camera FRAME packet was counted, then a telemetry
\* packet as long as a frame header with the left-camera flag at offset 8
\* was read and left the camera counters and the frame set alone.
C30_Witness ==
    /\ aa8f_packets = 1
    /\ a2c4_packets = 1
    /\ last_data = <<162, 196, 0, 0, 1, 0, 0, 0, 252, 0, 0, 0>>
    /\ left_packets = 1
    /\ right_packets = 0
    /\ frame_numbers = {258}

\* C31: a keep-alive step, whatever the outcome of its write and of its
\* acknowledgement read, leaves the total bytes, the packet counts, the
\* per-camera counts and the frame-number set unchanged; they change only on
\* a packet read from the streaming channel.
C31_KeepAliveLeavesCounters ==
    /\ [][(pc = "ka_write" \/ pc = "ka_ack")
            => UNCHANGED <<read_count, aa8f_packets, a2c4_packets, other_packets,
                           left_packets, right_packets, frame_numbers, all_data, f>>]_vars
    /\ [][(<<read_count, aa8f_packets, a2c4_packets, other_packets, left_packets,
              right_packets, frame_numbers, all_data, f>>' #
            <<read_count, aa8f_packets, a2c4_packets, other_packets, left_packets,
              right_packets, frame_numbers, all_data, f>>)
            => (pc = "read" /\ stream_reads' = stream_reads + 1 /\ last_data' # <<>>)]_vars

\* C31 witness: after a packet was counted, a later keep-alive step went
\* through, write and acknowledgement read both returning, and the
\* counters are those of the one packet.
C31_Witness ==
    /\ pc = "read"
    /\ trigger_attempted
    /\ trigger_gap > KeepAliveInterval
    /\ last_trigger_time = current_time
    /\ ~ka_timeouts
    /\ ~fatal_error
    /\ read_count = 1
    /\ aa8f_packets = 1
    /\ all_data = FramePacket(17, 1, 0, 252)

RECURSIVE SumOfSizes(_)
\* The sizes recorded in packet_info, added up.
SumOfSizes(info) ==
    IF info = <<>> THEN 0 ELSE info[Len(info)].size + SumOfSizes(SubSeq(info, 1, Len(info) - 1))

\* C32: the capture buffer is the concatenation, in arrival order, of exactly
\* the packets counted so far: there is one record per counted packet, each
\* packet lies in the buffer at its recorded offset right after the one
\* before it, the buffer's length is the sum of the packets' lengths, the
\* summary reports that length, and the output file holds the same bytes in
\* the same order.
C32_BufferIsPacketsInOrder ==
    /\ [](/\ Len(packet_info) = read_count
          /\ Len(all_data) = SumOfSizes(packet_info)
          /\ f = all_data
          /\ \A i \in 1..Len(packet_info) :
                /\ packet_info[i].size > 0
                /\ packet_info[i].offset = SumOfSizes(SubSeq(packet_info, 1, i - 1))
                /\ SubSeq(all_data, packet_info[i].offset + 1,
                          packet_info[i].offset + Len(packet_info[i].head))
                      = packet_info[i].head
          /\ (report.printed => report.total_bytes = Len(all_data)))
    /\ [][(stream_reads' # stream_reads /\ last_data' # <<>>)
            => (all_data' = all_data \o last_data' /\ f' = f \o last_data')]_vars
    /\ [][(stream_reads' = stream_reads \/ last_data' = <<>>)
            => UNCHANGED <<all_data, f, packet_info>>]_vars

\* C32 witness: a left-camera packet and then a right-camera packet were
\* counted, and the summary was printed for the 24 bytes.
C32_Witness ==
    /\ report.printed
    /\ read_count = 2
    /\ all_data = FramePacket(17, 1, 0, 252) \o FramePacket(33, 1, 0, 253)
    /\ f = all_data
    /\ report.total_bytes = 24

\* C33: in try_start_commands a command whose write succeeded is followed by
\* at least one and at most three response reads, reading stops at the first
\* read that returns a non-empty response, and no fourth read is issued.
C33_StartReadsBounded ==
    /\ [](probe_fn = "try_start_commands" => probe_reads <= 3)
    /\ []((probe_fn = "try_start_commands" /\ probe_pc = "read")
            => (probe_reads < 3 /\ ~probe_got))
    /\ [](probe_fn = "try_start_commands"
            => \A c \in probe_log :
                  c.result >= 0 => (c.reads \in 1..3 /\ (c.reads < 3 => c.got)))
    /\ [][(probe_fn = "try_start_commands" /\ probe_reads' = probe_reads + 1)
            => (probe_result >= 0 /\ probe_written /\ ~probe_got /\ probe_reads < 3)]_vars

\* C33 witness: one command of try_start_commands was answered at its second
\* read, another got three reads without an answer, and the function ended.
C33_Witness ==
    /\ probe_fn = "try_start_commands"
    /\ probe_pc = "done"
    /\ \E c \in probe_log : c.result >= 0 /\ c.reads = 2 /\ c.got
    /\ \E c \in probe_log : c.result >= 0 /\ c.reads = 3 /\ ~c.got

\* C34: after any sequence of Return, Backspace and printable key events the
\* list of lines is non-empty and current_line is len(lines) - 1, so it is a
\* valid index; a Backspace that removes a line removes the current one,
\* which is the last and is empty.
C34_CurrentLineIsLast ==
    /\ [](Len(lines) >= 1 /\ current_line = Len(lines) - 1)
    /\ [][Len(lines') < Len(lines)
            => /\ lines[current_line + 1] = <<>>
               /\ current_line + 1 = Len(lines)
               /\ lines' = SubSeq(lines, 1, current_line)]_vars

\* C34 witness: Backspace events emptied the first line, Return opened a
\* second one and a printable key typed into it.
C34_Witness ==
    /\ running
    /\ lines = << <<>>, <<"x">> >>
    /\ current_line = 1

\* C35: a read timeout never ends the listen loop and never skips an
\* endpoint: the reads of a round are the endpoints in their order (0x82,
\* 0x84, 0x86 in viture_buttons2), a round is counted only when all of them
\* were read, and the loop has ended exactly when the latest read raised a
\* non-timeout error or a keyboard interrupt.
C35_TimeoutNeverEndsLoop ==
    /\ [](\A i \in 1..Len(btn_round) :
             /\ btn_round[i].ep = Endpoints(btn_script)[i]
             /\ (i < Len(btn_round)
                   => btn_round[i].outcome \in {"data", "empty", "USBTimeoutError"}))
    /\ [](btn_pc = "stopped"
            <=> (btn_round # <<>>
                 /\ btn_round[Len(btn_round)].outcome \in {"USBError", "KeyboardInterrupt"}))
    /\ [](btn_pc = "stopped"
            => btn_exit = (IF btn_round[Len(btn_round)].outcome = "KeyboardInterrupt"
                           THEN "Stopped." ELSE "Error"))
    /\ [][btn_count' # btn_count
            => (/\ btn_script = "viture_buttons2"
                /\ btn_count' = btn_count + 1
                /\ [i \in 1..Len(btn_round') |-> btn_round'[i].ep] = <<130, 132, 134>>)]_vars
    /\ [][btn_pc = "stopped" => UNCHANGED btnVars]_vars

\* C35 witness: in viture_buttons2 a round was completed in which the reads
\* of 0x82 and 0x84 timed out and 0x86 was still read.
C35_Witness ==
    /\ btn_script = "viture_buttons2"
    /\ btn_pc = "read"
    /\ btn_count = 1
    /\ Len(btn_round) = 3
    /\ btn_round[1] = [ep |-> 130, outcome |-> "USBTimeoutError"]
    /\ btn_round[2] = [ep |-> 132, outcome |-> "USBTimeoutError"]
    /\ btn_round[3] = [ep |-> 134, outcome |-> "data"]

=============================================================================
